---- MODULE Spec2Model ----
(***************************************************************************)
(* Streaming tool-call orchestration loop of backend/fastapi_server.py:    *)
(* LiteLLMClient.chat_stream (delta accumulation, announce, execute,       *)
(* append, repeat) and the /chat endpoint's generate_response that         *)
(* forwards the loop's events to the caller.  backend/researcher.py holds  *)
(* the same chat_stream over another tool list.                            *)
(*                                                                         *)
(* Text is a sequence of one-character strings, so concatenation is \o and *)
(* chunk boundaries are visible.  chat_stream is an async generator: one   *)
(* action runs from one suspension point (await / yield) to the next.      *)
(***************************************************************************)
EXTENDS Naturals, Integers, Sequences, FiniteSets, TLC

\* ------------------------------------------------------------------------
\* Bounds of the model
\* ------------------------------------------------------------------------
\* chunks consumed over one run (all streams together)
MaxChunks == 3
\* provider requests issued in one run
MaxRequests == 2
\* largest tool-call index a delta of the accumulator specification carries
MaxIndex == 2

\* largest researchID used in the calls of the database
MaxResearchId == 2

\* number of wikipedia_search calls the researcher executes
MaxWikiCalls == 2

\* number of send_message calls on the session
MaxSends == 2

\* number of lines of one response
MaxLines == 2

VARIABLES
    chat_history,        \* the caller-supplied list (argument of chat_stream)
    chat_messages,       \* the run's message log (copy + system prompt + appended)
    new_messages,        \* messages appended during this run
    pc,                  \* position of the generator
    closed_at,           \* position at which the consumer stopped iterating
    full_response_text,  \* accumulator: text buffer
    tool_calls_data,     \* accumulator: position-indexed records
    current_tool_calls,  \* the list tested by "if not current_tool_calls"
    tc_i,                \* 1-based position of the for-loops over tool_calls_data
    args_json,           \* decoded arguments of the call being executed
    exc,                 \* the exception bound by "except Exception as e"
    events,              \* (event_type, event_data) pairs yielded by chat_stream
    delivered,           \* SSE payloads yielded by generate_response
    sent,                \* history: the messages= list of every acompletion call
    arrived,             \* history: deltas of the current stream, arrival order
    texts,               \* history: content of every chunk of the current stream
    nchunks,             \* chunks consumed so far in the run
    calls,               \* history: per call of the turn, what was done for it
    sent_tools,          \* history: the tools= list of every acompletion call
    other,               \* the frame of a second, suspended run of chat_stream
    research_details,    \* database.py: rows of the table research_details
    db_last,             \* database.py: the last call and what it gave
    wiki,                \* researcher.py: the execution of wikipedia_search calls
    session              \* fastapi_client.py: a ChatSession and its send_message

vars == <<chat_history, chat_messages, new_messages, pc, closed_at,
          session, wiki, sent_tools, other, research_details, db_last, full_response_text,
          tool_calls_data, current_tool_calls, tc_i, args_json, exc, events,
          delivered, sent, arrived, texts, nchunks, calls>>

\* ------------------------------------------------------------------------
\* Values
\* ------------------------------------------------------------------------
\* Python None in a string-valued attribute (id, type, name).  An absent text
\* (content, arguments), an absent tool_calls list and an absent function part
\* are written as the empty sequence / empty fields: the code tests all of
\* them only by truthiness, under which None and empty agree.
None == "None"

\* json.loads over the characters { } 1: the valid documents are exactly
\* "{}" (an empty object) and a non-empty run of digits (an integer).
IsDigits(s) == Len(s) > 0 /\ \A k \in 1..Len(s) : s[k] = "1"

\* outcome of a call: a returned value or a raised exception
Returns(v) == [raised |-> FALSE, value |-> v]

Raises(type, msg) == [raised |-> TRUE, type |-> type, msg |-> msg]

\* args_json = {} after a decode failure
EmptyDict == [type |-> "dict", keys |-> {}]

json_loads(s) ==
    IF s = <<"{", "}">> THEN Returns(EmptyDict)
    ELSE IF IsDigits(s) THEN Returns([type |-> "int", digits |-> Len(s)])
    ELSE Raises("JSONDecodeError", <<"Invalid JSON">>)

\* _call_local_tool: dummy_tool reads arguments.get("message", default),
\* which raises on a decoded value that is no dict
call_local_tool(tool_name, arguments) ==
    IF tool_name = "dummy_tool"
    THEN IF arguments.type = "dict"
         THEN Returns([dummy_tool |-> TRUE, message |-> "No message provided",
                       success |-> TRUE])
         ELSE Raises("AttributeError", <<"'", arguments.type, "' object has no attribute 'get'">>)
    ELSE Raises("ValueError", <<"Unknown local tool: ", tool_name>>)

\* json.dumps(ensure_serializable(result)): the serialized text of a value
json_dumps(v) == <<"json", v>>

\* the placeholder appended while len(tool_calls_data) <= index
Placeholder ==
    [id |-> "", type |-> "function", function |-> [name |-> "", arguments |-> <<>>]]

\* self.local_tools of the /chat server's client
local_tools ==
    <<[name |-> "dummy_tool", description |-> "A simple dummy tool",
       parameters |-> [type |-> "object", required |-> <<"message">>]]>>

local_tool_names == {local_tools[k].name : k \in 1..Len(local_tools)}

\* _convert_tools_to_openai_format: one function schema per local tool
convert_tools_to_openai_format(tools) ==
    [k \in 1..Len(tools) |->
        [type |-> "function",
         function |-> [name |-> tools[k].name,
                       description |-> tools[k].description,
                       parameters |-> tools[k].parameters]]]

\* openai_tools, built once at the top of chat_stream
openai_tools == convert_tools_to_openai_format(local_tools)

\* the system prompt inserted when the history has none
system_prompt == [role |-> "system", content |-> <<"You are a helpful assistant.">>]

\* variant: only the first message of the history is tested
has_system_message_First(msgs) == msgs # <<>> /\ msgs[1].role = "system"

has_system_message(msgs) == \E k \in 1..Len(msgs) : msgs[k].role = "system"

\* ------------------------------------------------------------------------
\* Delta accumulator
\* ------------------------------------------------------------------------
\* variant: "if" in place of "while", one placeholder at most
Grow_Once(tcd, index) ==
    IF Len(tcd) <= index THEN Append(tcd, [id |-> "", type |-> "function",
                                           function |-> [name |-> "", arguments |-> <<>>]])
    ELSE tcd

\* while len(tool_calls_data) <= tool_call_delta.index: append(placeholder)
RECURSIVE Grow(_, _)
Grow(tcd, index) ==
    IF Len(tcd) <= index THEN Grow(Append(tcd, Placeholder), index) ELSE tcd

\* variant: arguments assigned (=) where the code appends (+=)
UpdateRecord_Replace(rec, d) ==
    LET r1 == IF d.id # None /\ d.id # "" THEN [rec EXCEPT !.id = d.id] ELSE rec
        r2 == IF d.type # None /\ d.type # "" THEN [r1 EXCEPT !.type = d.type] ELSE r1
        r3 == IF d.function.name # None /\ d.function.name # ""
              THEN [r2 EXCEPT !.function.name = d.function.name] ELSE r2
        r4 == IF d.function.arguments # <<>>
              THEN [r3 EXCEPT !.function.arguments = d.function.arguments]
              ELSE r3
    IN r4

\* the "Update tool call data" block for one delta (index is 0-based)
UpdateRecord(rec, d) ==
    LET r1 == IF d.id # None /\ d.id # "" THEN [rec EXCEPT !.id = d.id] ELSE rec
        r2 == IF d.type # None /\ d.type # "" THEN [r1 EXCEPT !.type = d.type] ELSE r1
        r3 == IF d.function.name # None /\ d.function.name # ""
              THEN [r2 EXCEPT !.function.name = d.function.name] ELSE r2
        r4 == IF d.function.arguments # <<>>
              THEN [r3 EXCEPT !.function.arguments = @ \o d.function.arguments]
              ELSE r3
    IN r4

FoldDelta(tcd, d) ==
    LET g == Grow(tcd, d.index)
    IN [g EXCEPT ![d.index + 1] = UpdateRecord(@, d)]

\* for tool_call_delta in chunk.choices[0].delta.tool_calls
RECURSIVE FoldDeltas(_, _)
FoldDeltas(tcd, ds) ==
    IF ds = <<>> THEN tcd ELSE FoldDeltas(FoldDelta(tcd, Head(ds)), Tail(ds))

\* variant: the new content in front of the buffer
AppendText_Prepend(text, content) ==
    IF content # <<>> THEN content \o text ELSE text

\* full_response_text += content, guarded by "if chunk.choices[0].delta.content"
AppendText(text, content) ==
    IF content # <<>> THEN text \o content ELSE text


\* ------------------------------------------------------------------------
\* Provider chunks (inputs)
\* ------------------------------------------------------------------------
Delta(i, id, ty, name, frag) ==
    [index |-> i, id |-> id, type |-> ty,
     function |-> [name |-> name, arguments |-> frag]]

Chunk(content, deltas) == [content |-> content, tool_calls |-> deltas]

\* Chunks of the accumulator specification: text fragments, an empty chunk,
\* and per index a first delta (id, type, name), a delta with another id and
\* name, bare argument fragments, a delta with an id only; plus
\* chunks that carry text and deltas of two indices at once.
FoldDeltaSet ==
    UNION {{Delta(i, "c1", "function", "dummy_tool", <<>>),
            Delta(i, "c2", None, "bogus", <<>>),
            Delta(i, None, None, None, <<"{">>),
            Delta(i, "", "", "", <<"}">>)} : i \in 0..MaxIndex}
    \cup {Delta(0, "c2", None, None, <<>>)}

FoldChunks ==
    {Chunk(<<"a">>, <<>>), Chunk(<<"b">>, <<>>), Chunk(<<>>, <<>>)}
    \cup {Chunk(<<>>, <<d>>) : d \in FoldDeltaSet}
    \cup {Chunk(<<"a", "b">>, <<Delta(1, None, None, None, <<"{">>),
                               Delta(0, None, None, None, <<"{">>),
                               Delta(1, None, None, None, <<"}">>)>>)}

\* Chunks of the loop specification: one text fragment, and complete calls
\* at index 0 or 1: a registered tool with decodable arguments, with integer
\* arguments, with undecodable arguments, and an unregistered tool.
LoopChunks ==
    {Chunk(<<"a">>, <<>>)}
    \cup {Chunk(<<>>, <<Delta(0, "c1", "function", "dummy_tool", <<"{", "}">>)>>),
          Chunk(<<>>, <<Delta(0, "c1", "function", "dummy_tool", <<"1">>)>>),
          Chunk(<<>>, <<Delta(0, "c1", "function", "bogus", <<"{", "}">>)>>),
          Chunk(<<>>, <<Delta(1, "c2", "function", "dummy_tool", <<"{">>)>>),
          Chunk(<<>>, <<Delta(1, "c2", "function", "bogus", <<"{">>)>>),
          Chunk(<<>>, <<Delta(1, "c2", "function", "dummy_tool", <<"{", "}">>)>>)}

\* Chunks of the two-run specification: a text fragment and a complete call
\* of the registered tool.
PairChunks ==
    {Chunk(<<"a">>, <<>>),
     Chunk(<<>>, <<Delta(0, "c1", "function", "dummy_tool", <<"{", "}">>)>>),
     Chunk(<<>>, <<Delta(1, "c2", "function", "dummy_tool", <<"{", "}">>)>>)}

\* caller-supplied histories
user_message == [role |-> "user", content |-> <<"q">>]

Histories ==
    {<<user_message>>,
     <<[role |-> "system", content |-> <<"s">>], user_message>>,
     <<user_message, [role |-> "system", content |-> <<"s">>]>>}

\* ------------------------------------------------------------------------
\* Events
\* ------------------------------------------------------------------------
\* (event_type, event_data) as yielded by chat_stream
Event(type, data) == [event_type |-> type, event_data |-> data]

\* variant: generate_response without its "error" branch
Wire_NoError(e) ==
    IF e.event_type \in {"chunk", "tool_call", "tool_result"} THEN <<e.event_data>>
    ELSE IF e.event_type = "full_response"
         THEN <<[full_response |-> e.event_data, type |-> "full_response"]>>
    ELSE <<>>

\* generate_response: chunk / tool_call / tool_result pass through, error and
\* full_response are wrapped
Wire(e) ==
    IF e.event_type \in {"chunk", "tool_call", "tool_result"} THEN <<e.event_data>>
    ELSE IF e.event_type = "error"
         THEN <<[content |-> e.event_data, type |-> "error"]>>
    ELSE IF e.event_type = "full_response"
         THEN <<[full_response |-> e.event_data, type |-> "full_response"]>>
    ELSE <<>>

\* one yield of chat_stream, taken by generate_response's async for
Yield(e) ==
    /\ events' = Append(events, e)
    /\ delivered' = delivered \o Wire(e)

NoYield == UNCHANGED <<events, delivered>>

\* text of the error events and of the error tool message
ParseErrorMsg(arguments) ==
    <<"[Error parsing tool arguments]: Invalid JSON: ", arguments>>

CallErrorMsg(tool_name, e) ==
    <<"[Error calling tool ", tool_name, "]: ", e.type, ": ", e.msg>>

ApiErrorMsg(e) == <<"[Error during API call]: ", e.type, ": ", e.msg>>

\* variant: the content is str(e) alone
ErrorContent_Bare(tool_name, e) == e.msg

ErrorContent(tool_name, e) ==
    <<"Error executing tool '", tool_name, "': ", e.msg>>


\* ------------------------------------------------------------------------
\* chat_stream
\* ------------------------------------------------------------------------
NoCall == [started |-> 0, returned |-> 0, results |-> <<>>, appended |-> <<>>]

\* failures of the provider: acompletion raising, the stream raising
ProviderErrors == {Raises("APIConnectionError", <<"provider">>)}

\* the local variables of a run of chat_stream that has not started, and
\* the histories kept about it
InitialFrame(history) ==
    [chat_history |-> history, chat_messages |-> <<>>, new_messages |-> <<>>,
     pc |-> "start", closed_at |-> None, full_response_text |-> <<>>,
     tool_calls_data |-> <<>>, current_tool_calls |-> <<>>, tc_i |-> 0,
     args_json |-> EmptyDict, exc |-> Raises(None, <<>>), events |-> <<>>,
     delivered |-> <<>>, sent |-> <<>>, sent_tools |-> <<>>, arrived |-> <<>>,
     texts |-> <<>>, nchunks |-> 0, calls |-> <<>>]

\* the history of the second request served by the same client
other_history == <<[role |-> "user", content |-> <<"r">>]>>

\* no call of the database yet
NoDbCall == [op |-> None]

\* ChatSession.__init__: self.messages = []; sends and log are histories:
\* the messages of every request, and per send_message call what was sent,
\* which text arrived and how the call ended
NewChatSession ==
    [pc |-> "idle", messages |-> <<>>, assistant_content |-> <<>>,
     tool_calls_made |-> <<>>, tool_results |-> <<>>, out |-> <<>>,
     nlines |-> 0, requests |-> <<>>, log |-> <<>>]

\* the researcher has executed no call yet
NoWikiCall ==
    [pc |-> "idle", arguments |-> <<>>, net |-> None, args_json |-> EmptyDict,
     exc |-> Raises(None, <<>>), events |-> <<>>, messages |-> <<>>,
     ncalls |-> 0]

Init ==
    /\ chat_history \in Histories
    /\ sent_tools = <<>>
    /\ other = InitialFrame(other_history)
    /\ research_details = {}
    /\ db_last = NoDbCall
    /\ wiki = NoWikiCall
    /\ session = NewChatSession
    /\ chat_messages = <<>>
    /\ new_messages = <<>>
    /\ pc = "start"
    /\ closed_at = None
    /\ full_response_text = <<>>
    /\ tool_calls_data = <<>>
    /\ current_tool_calls = <<>>
    /\ tc_i = 0
    /\ args_json = EmptyDict
    /\ exc = Raises(None, <<>>)
    /\ events = <<>>
    /\ delivered = <<>>
    /\ sent = <<>>
    /\ arrived = <<>>
    /\ texts = <<>>
    /\ nchunks = 0
    /\ calls = <<>>

\* variant: chat_messages = chat_history without copy(), so that the insert
\* of the system prompt is an insert into the caller's list
Start_NoCopy ==
    /\ pc = "start"
    /\ chat_messages' = IF has_system_message(chat_history)
                        THEN chat_history
                        ELSE <<system_prompt>> \o chat_history
    /\ chat_history' = chat_messages'
    /\ new_messages' = <<>>
    /\ pc' = "request"
    /\ UNCHANGED <<session, wiki, other, research_details, db_last, sent_tools, closed_at,
                   full_response_text, tool_calls_data,
                   current_tool_calls, tc_i, args_json, exc, events, delivered,
                   sent, arrived, texts, nchunks, calls>>

\* the code before the while loop: copy the history, insert the system
\* prompt when no message has role "system"
Start ==
    /\ pc = "start"
    /\ chat_messages' = IF has_system_message(chat_history)
                        THEN chat_history
                        ELSE <<system_prompt>> \o chat_history
    /\ new_messages' = <<>>
    /\ pc' = "request"
    /\ UNCHANGED <<session, wiki, other, research_details, db_last, sent_tools, closed_at,
                   chat_history, full_response_text, tool_calls_data,
                   current_tool_calls, tc_i, args_json, exc, events, delivered,
                   sent, arrived, texts, nchunks, calls>>

\* stream = await acompletion(messages=chat_messages, ...) returns a stream;
\* the accumulator is reset
RequestStream ==
    /\ pc = "request"
    /\ Len(sent) < MaxRequests
    /\ sent' = Append(sent, chat_messages)
    /\ sent_tools' = Append(sent_tools, openai_tools)
    /\ full_response_text' = <<>>
    /\ tool_calls_data' = <<>>
    /\ current_tool_calls' = <<>>
    /\ arrived' = <<>>
    /\ texts' = <<>>
    /\ calls' = <<>>
    /\ pc' = "stream"
    /\ UNCHANGED <<session, wiki, other, research_details, db_last, closed_at,
                   chat_history, chat_messages, new_messages, tc_i, args_json,
                   exc, events, delivered, nchunks>>

\* variant: "break" in place of "return" in the provider handler
ProviderFailure_Break(e) ==
    /\ exc' = e
    /\ Yield(Event("error", ApiErrorMsg(e)))
    /\ pc' = "break"

\* except Exception as e: yield "error", error_msg; return
ProviderFailure(e) ==
    /\ exc' = e
    /\ Yield(Event("error", ApiErrorMsg(e)))
    /\ pc' = "done"

\* await acompletion(...) raises
RequestFails ==
    /\ pc = "request"
    /\ Len(sent) < MaxRequests
    /\ sent' = Append(sent, chat_messages)
    /\ sent_tools' = Append(sent_tools, openai_tools)
    /\ \E e \in ProviderErrors : ProviderFailure(e)
    /\ calls' = <<>>
    /\ UNCHANGED <<session, wiki, other, research_details, db_last, closed_at,
                   chat_history, chat_messages, new_messages, full_response_text,
                   tool_calls_data, current_tool_calls, tc_i, args_json,
                   arrived, texts, nchunks>>

\* variant: a tool call announced as soon as a delta of it arrives
ConsumeChunk_Announce(chunk) ==
    /\ pc = "stream"
    /\ nchunks < MaxChunks
    /\ nchunks' = nchunks + 1
    /\ full_response_text' = AppendText(full_response_text, chunk.content)
    /\ IF chunk.content # <<>>
       THEN Yield(Event("chunk", [v |-> chunk.content]))
       ELSE IF chunk.tool_calls # <<>>
            THEN Yield(Event("tool_call",
                             [tc |-> FoldDeltas(tool_calls_data, chunk.tool_calls)
                                         [chunk.tool_calls[1].index + 1]]))
            ELSE NoYield
    /\ texts' = Append(texts, chunk.content)
    /\ tool_calls_data' = IF chunk.tool_calls # <<>>
                          THEN FoldDeltas(tool_calls_data, chunk.tool_calls)
                          ELSE tool_calls_data
    /\ arrived' = arrived \o chunk.tool_calls
    /\ UNCHANGED <<session, wiki, other, research_details, db_last, sent_tools, closed_at,
                   chat_history, chat_messages, new_messages, pc,
                   current_tool_calls, tc_i, args_json, exc, sent, calls>>

\* one iteration of "async for chunk in stream"
ConsumeChunk(chunk) ==
    /\ pc = "stream"
    /\ nchunks < MaxChunks
    /\ nchunks' = nchunks + 1
    /\ full_response_text' = AppendText(full_response_text, chunk.content)
    /\ IF chunk.content # <<>>
       THEN Yield(Event("chunk", [v |-> chunk.content]))
       ELSE NoYield
    /\ texts' = Append(texts, chunk.content)
    /\ tool_calls_data' = IF chunk.tool_calls # <<>>
                          THEN FoldDeltas(tool_calls_data, chunk.tool_calls)
                          ELSE tool_calls_data
    /\ arrived' = arrived \o chunk.tool_calls
    /\ UNCHANGED <<session, wiki, other, research_details, db_last, sent_tools, closed_at,
                   chat_history, chat_messages, new_messages, pc,
                   current_tool_calls, tc_i, args_json, exc, sent, calls>>

FoldChunk == \E chunk \in FoldChunks : ConsumeChunk(chunk)

LoopChunk == \E chunk \in LoopChunks : ConsumeChunk(chunk)

\* variant: the text consumed before the failure kept as an assistant message
StreamFails_KeepPartial ==
    /\ pc = "stream"
    /\ \E e \in ProviderErrors : ProviderFailure(e)
    /\ new_messages' = Append(new_messages, [role |-> "assistant",
                                             content |-> full_response_text])
    /\ chat_messages' = Append(chat_messages, [role |-> "assistant",
                                               content |-> full_response_text])
    /\ UNCHANGED <<session, wiki, other, research_details, db_last, sent_tools, closed_at,
                   chat_history, full_response_text,
                   tool_calls_data, current_tool_calls, tc_i, args_json, sent,
                   arrived, texts, nchunks, calls>>

\* the stream raises while it is consumed
StreamFails ==
    /\ pc = "stream"
    /\ \E e \in ProviderErrors : ProviderFailure(e)
    /\ UNCHANGED <<session, wiki, other, research_details, db_last, sent_tools, closed_at,
                   chat_history, chat_messages, new_messages, full_response_text,
                   tool_calls_data, current_tool_calls, tc_i, args_json, sent,
                   arrived, texts, nchunks, calls>>

\* the assistant message built at stream end
assistant_message ==
    IF tool_calls_data # <<>>
    THEN [role |-> "assistant", content |-> full_response_text,
          tool_calls |-> tool_calls_data]
    ELSE [role |-> "assistant", content |-> full_response_text]

\* stream end with records: current_tool_calls = tool_calls_data and the
\* first "tool_call" yield
StreamEndToolCalls ==
    /\ pc = "stream"
    /\ tool_calls_data # <<>>
    /\ current_tool_calls' = tool_calls_data
    /\ calls' = [k \in 1..Len(tool_calls_data) |-> NoCall]
    /\ tc_i' = 1
    /\ Yield(Event("tool_call", [tc |-> tool_calls_data[1]]))
    /\ pc' = "announce"
    /\ UNCHANGED <<session, wiki, other, research_details, db_last, sent_tools, closed_at,
                   chat_history, chat_messages, new_messages, full_response_text,
                   tool_calls_data, args_json, exc, sent, arrived, texts, nchunks>>

\* the next "tool_call" yield of "for tc_data in tool_calls_data"
AnnounceNext ==
    /\ pc = "announce"
    /\ tc_i < Len(tool_calls_data)
    /\ tc_i' = tc_i + 1
    /\ Yield(Event("tool_call", [tc |-> tool_calls_data[tc_i + 1]]))
    /\ UNCHANGED <<session, wiki, other, research_details, db_last, sent_tools, closed_at,
                   chat_history, chat_messages, new_messages, pc,
                   full_response_text, tool_calls_data, current_tool_calls,
                   args_json, exc, sent, arrived, texts, nchunks, calls>>

\* variant: the for loop over the calls entered after the first announcement
AppendAssistant_Early ==
    /\ pc = "announce"
    /\ tc_i >= 1
    /\ new_messages' = Append(new_messages, assistant_message)
    /\ chat_messages' = Append(chat_messages, assistant_message)
    /\ NoYield
    /\ pc' = "parse"
    /\ tc_i' = 1
    /\ UNCHANGED <<session, wiki, other, research_details, db_last, sent_tools, closed_at,
                   chat_history, full_response_text, tool_calls_data,
                   current_tool_calls, args_json, exc, sent, arrived, texts,
                   nchunks, calls>>

\* after the last announcement: append the assistant message; the turn has
\* tool calls, so the for loop over formatted_tool_calls starts
AppendAssistant ==
    /\ pc = "announce"
    /\ tc_i = Len(tool_calls_data)
    /\ new_messages' = Append(new_messages, assistant_message)
    /\ chat_messages' = Append(chat_messages, assistant_message)
    /\ IF current_tool_calls = <<>>
       THEN /\ Yield(Event("full_response", Append(new_messages, assistant_message)))
            /\ pc' = "break"
            /\ tc_i' = tc_i
       ELSE /\ NoYield
            /\ pc' = "parse"
            /\ tc_i' = 1
    /\ UNCHANGED <<session, wiki, other, research_details, db_last, sent_tools, closed_at,
                   chat_history, full_response_text, tool_calls_data,
                   current_tool_calls, args_json, exc, sent, arrived, texts,
                   nchunks, calls>>

\* variant: records are counted from the first one that has an id
StreamEndNoToolCalls_SkipUnfilled ==
    /\ pc = "stream"
    /\ IF tool_calls_data = <<>> THEN TRUE ELSE tool_calls_data[1].id = ""
    /\ new_messages' = Append(new_messages, assistant_message)
    /\ chat_messages' = Append(chat_messages, assistant_message)
    /\ IF current_tool_calls = <<>>
       THEN /\ Yield(Event("full_response", Append(new_messages, assistant_message)))
            /\ pc' = "break"
            /\ tc_i' = tc_i
       ELSE /\ NoYield
            /\ pc' = "parse"
            /\ tc_i' = 1
    /\ UNCHANGED <<session, wiki, other, research_details, db_last, sent_tools, closed_at,
                   chat_history, full_response_text, tool_calls_data,
                   current_tool_calls, args_json, exc, sent, arrived,
                   texts, nchunks, calls>>

\* variant: a turn without tool calls goes back to the top of the while loop
StreamEndNoToolCalls_Continue ==
    /\ pc = "stream"
    /\ tool_calls_data = <<>>
    /\ new_messages' = Append(new_messages, assistant_message)
    /\ chat_messages' = Append(chat_messages, assistant_message)
    /\ NoYield
    /\ pc' = "request"
    /\ tc_i' = tc_i
    /\ UNCHANGED <<session, wiki, other, research_details, db_last, sent_tools, closed_at,
                   chat_history, full_response_text, tool_calls_data,
                   current_tool_calls, args_json, exc, sent, arrived,
                   texts, nchunks, calls>>

\* stream end without records: append the assistant message, yield
\* "full_response" and break
StreamEndNoToolCalls ==
    /\ pc = "stream"
    /\ tool_calls_data = <<>>
    /\ new_messages' = Append(new_messages, assistant_message)
    /\ chat_messages' = Append(chat_messages, assistant_message)
    /\ IF current_tool_calls = <<>>
       THEN /\ Yield(Event("full_response", Append(new_messages, assistant_message)))
            /\ pc' = "break"
            /\ tc_i' = tc_i
       ELSE /\ NoYield
            /\ pc' = "parse"
            /\ tc_i' = 1
    /\ UNCHANGED <<session, wiki, other, research_details, db_last, sent_tools, closed_at,
                   chat_history, full_response_text, tool_calls_data,
                   current_tool_calls, args_json, exc, sent, arrived,
                   texts, nchunks, calls>>

\* variant: the whole log yielded after the loop
AfterLoop_WholeLog ==
    /\ pc = "break"
    /\ Yield(Event("full_response", chat_messages))
    /\ pc' = "done"
    /\ UNCHANGED <<session, wiki, other, research_details, db_last, sent_tools, closed_at,
                   chat_history, chat_messages, new_messages, full_response_text,
                   tool_calls_data, current_tool_calls, tc_i, args_json, exc,
                   sent, arrived, texts, nchunks, calls>>

\* after the break: the yield that follows the while loop
AfterLoop ==
    /\ pc = "break"
    /\ Yield(Event("full_response", new_messages))
    /\ pc' = "done"
    /\ UNCHANGED <<session, wiki, other, research_details, db_last, sent_tools, closed_at,
                   chat_history, chat_messages, new_messages, full_response_text,
                   tool_calls_data, current_tool_calls, tc_i, args_json, exc,
                   sent, arrived, texts, nchunks, calls>>


\* ---- "for tool_call in formatted_tool_calls" ----
\* formatted_tool_calls[tc_i]: id, function.name, function.arguments of the record
tool_call == tool_calls_data[tc_i]

tool_name == tool_call.function.name

tool_call_id == tool_call.id

\* variant: the for loop left after its first iteration
NextCall_Leave ==
    /\ tc_i' = tc_i
    /\ pc' = "request"

\* the end of one iteration of the for loop: the next call, or back to the
\* top of the while loop
NextCall ==
    IF tc_i < Len(tool_calls_data)
    THEN /\ tc_i' = tc_i + 1
         /\ pc' = "parse"
    ELSE /\ tc_i' = tc_i
         /\ pc' = "request"

\* variant: json.loads inside the try of the call, without a handler of its own
ParseArguments_Raise ==
    /\ pc = "parse"
    /\ LET r == json_loads(tool_call.function.arguments)
       IN IF r.raised
          THEN /\ exc' = r
               /\ Yield(Event("error", CallErrorMsg(tool_name, r)))
               /\ args_json' = args_json
               /\ pc' = "except"
          ELSE /\ exc' = exc
               /\ NoYield
               /\ args_json' = r.value
               /\ pc' = "call"
    /\ UNCHANGED <<session, wiki, other, research_details, db_last, sent_tools, closed_at,
                   chat_history, chat_messages, new_messages,
                   full_response_text, tool_calls_data, current_tool_calls,
                   tc_i, sent, arrived, texts, nchunks, calls>>

\* variant: the JSONDecodeError handler without "args_json = {}"
ParseArguments_Stale ==
    /\ pc = "parse"
    /\ LET r == json_loads(tool_call.function.arguments)
       IN IF r.raised
          THEN /\ Yield(Event("error", ParseErrorMsg(tool_call.function.arguments)))
               /\ args_json' = args_json
          ELSE /\ NoYield
               /\ args_json' = r.value
    /\ pc' = "call"
    /\ UNCHANGED <<session, wiki, other, research_details, db_last, sent_tools, closed_at,
                   chat_history, chat_messages, new_messages,
                   full_response_text, tool_calls_data, current_tool_calls,
                   tc_i, exc, sent, arrived, texts, nchunks, calls>>

\* args_json = json.loads(arguments); on JSONDecodeError yield "error" and
\* go on with args_json = {}
ParseArguments ==
    /\ pc = "parse"
    /\ LET r == json_loads(tool_call.function.arguments)
       IN IF r.raised
          THEN /\ Yield(Event("error", ParseErrorMsg(tool_call.function.arguments)))
               /\ args_json' = EmptyDict
          ELSE /\ NoYield
               /\ args_json' = r.value
    /\ pc' = "call"
    /\ UNCHANGED <<session, wiki, other, research_details, db_last, sent_tools, closed_at,
                   chat_history, chat_messages, new_messages, full_response_text,
                   tool_calls_data, current_tool_calls, tc_i, exc, sent, arrived,
                   texts, nchunks, calls>>

\* variant: the handler of a tool failure without its "error" yield
ToolFailure_Silent(e) ==
    /\ exc' = e
    /\ NoYield
    /\ pc' = "except"

\* variant: a tool failure handled like a provider failure
ToolFailure_Fatal(e) ==
    /\ exc' = e
    /\ Yield(Event("error", CallErrorMsg(tool_name, e)))
    /\ pc' = "done"

\* the handler "except Exception as e" up to its first yield
ToolFailure(e) ==
    /\ exc' = e
    /\ Yield(Event("error", CallErrorMsg(tool_name, e)))
    /\ pc' = "except"

\* variant: every call of the turn started at once
InvokeTool_All ==
    /\ pc = "call"
    /\ tool_name \in local_tool_names
    /\ calls' = [k \in 1..Len(calls) |-> [calls[k] EXCEPT !.started = @ + 1]]
    /\ pc' = "await"
    /\ UNCHANGED <<session, wiki, other, research_details, db_last, sent_tools, closed_at,
                   chat_history, chat_messages, new_messages, full_response_text,
                   tool_calls_data, current_tool_calls, tc_i, args_json, exc,
                   events, delivered, sent, arrived, texts, nchunks>>

\* tool_name in local_tool_names: the call of the tool starts
InvokeTool ==
    /\ pc = "call"
    /\ tool_name \in local_tool_names
    /\ calls' = [calls EXCEPT ![tc_i].started = @ + 1]
    /\ pc' = "await"
    /\ UNCHANGED <<session, wiki, other, research_details, db_last, sent_tools, closed_at,
                   chat_history, chat_messages, new_messages, full_response_text,
                   tool_calls_data, current_tool_calls, tc_i, args_json, exc,
                   events, delivered, sent, arrived, texts, nchunks>>

\* variant: the lookup left to _call_local_tool and its own message
UnknownTool_Local ==
    /\ pc = "call"
    /\ tool_name \notin local_tool_names
    /\ ToolFailure(Raises("ValueError", <<"Unknown local tool: ", tool_name>>))
    /\ UNCHANGED <<session, wiki, other, research_details, db_last, sent_tools, closed_at,
                   chat_history, chat_messages, new_messages,
                   full_response_text, tool_calls_data, current_tool_calls,
                   tc_i, args_json, sent, arrived, texts, nchunks, calls>>

\* else: raise ValueError(f"Unknown tool: {tool_name}")
UnknownTool ==
    /\ pc = "call"
    /\ tool_name \notin local_tool_names
    /\ ToolFailure(Raises("ValueError", <<"Unknown tool: ", tool_name>>))
    /\ UNCHANGED <<session, wiki, other, research_details, db_last, sent_tools, closed_at,
                   chat_history, chat_messages, new_messages, full_response_text,
                   tool_calls_data, current_tool_calls, tc_i, args_json, sent,
                   arrived, texts, nchunks, calls>>

\* the awaited tool returns: tool_result_content = json.dumps(result) and
\* the "tool_result" yield
ToolReturns ==
    /\ pc = "await"
    /\ LET r == call_local_tool(tool_name, args_json)
       IN /\ ~r.raised
          /\ Yield(Event("tool_result",
                         [tr |-> [tool_call_id |-> tool_call_id,
                                  content |-> json_dumps(r.value)]]))
    /\ calls' = [calls EXCEPT ![tc_i].returned = @ + 1,
                              ![tc_i].results = Append(@, tool_call_id)]
    /\ pc' = "append"
    /\ UNCHANGED <<session, wiki, other, research_details, db_last, sent_tools, closed_at,
                   chat_history, chat_messages, new_messages, full_response_text,
                   tool_calls_data, current_tool_calls, tc_i, args_json, exc,
                   sent, arrived, texts, nchunks>>

\* the awaited tool raises
ToolRaises ==
    /\ pc = "await"
    /\ LET r == call_local_tool(tool_name, args_json)
       IN /\ r.raised
          /\ ToolFailure(r)
    /\ calls' = [calls EXCEPT ![tc_i].returned = @ + 1]
    /\ UNCHANGED <<session, wiki, other, research_details, db_last, sent_tools, closed_at,
                   chat_history, chat_messages, new_messages, full_response_text,
                   tool_calls_data, current_tool_calls, tc_i, args_json, sent,
                   arrived, texts, nchunks>>

\* variant: the tool message written over the last message of the log
AppendToolMessage_Overwrite ==
    /\ pc = "append"
    /\ LET content_str == json_dumps(call_local_tool(tool_name, args_json).value)
           tool_message == [role |-> "tool", tool_call_id |-> tool_call_id,
                            content |-> content_str]
       IN /\ new_messages' = [new_messages EXCEPT ![Len(new_messages)] = tool_message]
          /\ chat_messages' = [chat_messages EXCEPT ![Len(chat_messages)] = tool_message]
    /\ calls' = [calls EXCEPT ![tc_i].appended = Append(@, tool_call_id)]
    /\ NextCall
    /\ UNCHANGED <<session, wiki, other, research_details, db_last, sent_tools, closed_at,
                   chat_history, full_response_text, tool_calls_data,
                   current_tool_calls, args_json, exc, events, delivered, sent,
                   arrived, texts, nchunks>>

\* after the "tool_result" yield: the tool message is appended
AppendToolMessage ==
    /\ pc = "append"
    /\ LET content_str == json_dumps(call_local_tool(tool_name, args_json).value)
           tool_message == [role |-> "tool", tool_call_id |-> tool_call_id,
                            content |-> content_str]
       IN /\ new_messages' = Append(new_messages, tool_message)
          /\ chat_messages' = Append(chat_messages, tool_message)
    /\ calls' = [calls EXCEPT ![tc_i].appended = Append(@, tool_call_id)]
    /\ NextCall
    /\ UNCHANGED <<session, wiki, other, research_details, db_last, sent_tools, closed_at,
                   chat_history, full_response_text, tool_calls_data,
                   current_tool_calls, args_json, exc, events, delivered, sent,
                   arrived, texts, nchunks>>

\* variant: the error flag kept in the tool message as well
AppendErrorToolMessage_Flag ==
    /\ pc = "except"
    /\ LET error_tool_message == [role |-> "tool", tool_call_id |-> tool_call_id,
                                  content |-> ErrorContent(tool_name, exc),
                                  error |-> TRUE]
       IN /\ new_messages' = Append(new_messages, error_tool_message)
          /\ chat_messages' = Append(chat_messages, error_tool_message)
          /\ Yield(Event("tool_result",
                         [tr |-> [tool_call_id |-> tool_call_id,
                                  content |-> error_tool_message.content,
                                  error |-> TRUE]]))
    /\ calls' = [calls EXCEPT ![tc_i].appended = Append(@, tool_call_id),
                              ![tc_i].results = Append(@, tool_call_id)]
    /\ NextCall
    /\ UNCHANGED <<session, wiki, other, research_details, db_last, sent_tools, closed_at,
                   chat_history, full_response_text, tool_calls_data,
                   current_tool_calls, args_json, exc, sent, arrived, texts,
                   nchunks>>

\* variant: the handler without its "tool_result" yield
AppendErrorToolMessage_NoResult ==
    /\ pc = "except"
    /\ LET error_tool_message == [role |-> "tool", tool_call_id |-> tool_call_id,
                                  content |-> ErrorContent(tool_name, exc)]
       IN /\ new_messages' = Append(new_messages, error_tool_message)
          /\ chat_messages' = Append(chat_messages, error_tool_message)
    /\ calls' = [calls EXCEPT ![tc_i].appended = Append(@, tool_call_id)]
    /\ NextCall
    /\ UNCHANGED <<session, wiki, other, research_details, db_last, sent_tools, closed_at,
                   chat_history, full_response_text, tool_calls_data,
                   current_tool_calls, args_json, exc, events, delivered, sent,
                   arrived, texts, nchunks>>

\* the rest of the handler: the error tool message is appended, then the
\* "tool_result" yield with error: True
AppendErrorToolMessage ==
    /\ pc = "except"
    /\ LET error_tool_message == [role |-> "tool", tool_call_id |-> tool_call_id,
                                  content |-> ErrorContent(tool_name, exc)]
       IN /\ new_messages' = Append(new_messages, error_tool_message)
          /\ chat_messages' = Append(chat_messages, error_tool_message)
          /\ Yield(Event("tool_result",
                         [tr |-> [tool_call_id |-> tool_call_id,
                                  content |-> error_tool_message.content,
                                  error |-> TRUE]]))
    /\ calls' = [calls EXCEPT ![tc_i].appended = Append(@, tool_call_id),
                              ![tc_i].results = Append(@, tool_call_id)]
    /\ NextCall
    /\ UNCHANGED <<session, wiki, other, research_details, db_last, sent_tools, closed_at,
                   chat_history, full_response_text, tool_calls_data,
                   current_tool_calls, args_json, exc, sent, arrived, texts,
                   nchunks>>

\* ---- the consumer of generate_response ----
\* chat_stream runs only while StreamingResponse iterates generate_response,
\* whose "async for" iterates chat_stream; no task and no queue stand between
\* them.  A consumer that stops iterating leaves the generator suspended
\* where it is (closed at its yield, or cancelled at its await): no later
\* step of chat_stream runs.
Detach ==
    /\ pc \notin {"done", "closed"}
    /\ closed_at' = pc
    /\ pc' = "closed"
    /\ UNCHANGED <<session, wiki, other, research_details, db_last, sent_tools,
                   chat_history, chat_messages, new_messages,
                   full_response_text, tool_calls_data, current_tool_calls,
                   tc_i, args_json, exc, events, delivered, sent, arrived,
                   texts, nchunks, calls>>

\* ---- two runs on the one LiteLLMClient of the server ----
\* Every name chat_stream assigns is a local of the call (the client object
\* has the attribute local_tools only, which chat_stream reads), so a run is
\* its frame.  The variables above are the frame of the run the event loop
\* is executing; "other" is the frame of the suspended run.
CurrentFrame ==
    [chat_history |-> chat_history,
     chat_messages |-> chat_messages,
     new_messages |-> new_messages,
     pc |-> pc,
     closed_at |-> closed_at,
     full_response_text |-> full_response_text,
     tool_calls_data |-> tool_calls_data,
     current_tool_calls |-> current_tool_calls,
     tc_i |-> tc_i,
     args_json |-> args_json,
     exc |-> exc,
     events |-> events,
     delivered |-> delivered,
     sent |-> sent,
     sent_tools |-> sent_tools,
     arrived |-> arrived,
     texts |-> texts,
     nchunks |-> nchunks,
     calls |-> calls]

\* variant: the accumulator kept on the client object (self.full_response_text,
\* self.tool_calls_data), so that a resumed run finds what the other run left
SwitchRun_SharedAccumulator ==
    /\ other' = CurrentFrame
    /\ chat_history' = other.chat_history
    /\ chat_messages' = other.chat_messages
    /\ new_messages' = other.new_messages
    /\ pc' = other.pc
    /\ closed_at' = other.closed_at
    /\ full_response_text' = full_response_text
    /\ tool_calls_data' = tool_calls_data
    /\ current_tool_calls' = other.current_tool_calls
    /\ tc_i' = other.tc_i
    /\ args_json' = other.args_json
    /\ exc' = other.exc
    /\ events' = other.events
    /\ delivered' = other.delivered
    /\ sent' = other.sent
    /\ sent_tools' = other.sent_tools
    /\ arrived' = other.arrived
    /\ texts' = other.texts
    /\ nchunks' = other.nchunks
    /\ calls' = other.calls
    /\ UNCHANGED <<session, wiki, research_details, db_last>>

\* the event loop suspends the running chat_stream at an await or a yield
\* and resumes the other one
SwitchRun ==
    /\ other' = CurrentFrame
    /\ chat_history' = other.chat_history
    /\ chat_messages' = other.chat_messages
    /\ new_messages' = other.new_messages
    /\ pc' = other.pc
    /\ closed_at' = other.closed_at
    /\ full_response_text' = other.full_response_text
    /\ tool_calls_data' = other.tool_calls_data
    /\ current_tool_calls' = other.current_tool_calls
    /\ tc_i' = other.tc_i
    /\ args_json' = other.args_json
    /\ exc' = other.exc
    /\ events' = other.events
    /\ delivered' = other.delivered
    /\ sent' = other.sent
    /\ sent_tools' = other.sent_tools
    /\ arrived' = other.arrived
    /\ texts' = other.texts
    /\ nchunks' = other.nchunks
    /\ calls' = other.calls
    /\ UNCHANGED <<session, wiki, research_details, db_last>>

\* ------------------------------------------------------------------------
\* fastapi_client.py: ChatSession.send_message over chat_stream_with_history
\* ------------------------------------------------------------------------
Whitespace == {" "}

\* str.strip(): the text without its leading and trailing whitespace
RECURSIVE LStrip(_)
LStrip(t) ==
    IF t = <<>> THEN <<>>
    ELSE IF Head(t) \in Whitespace THEN LStrip(Tail(t)) ELSE t

RECURSIVE RStrip(_)
RStrip(t) ==
    IF t = <<>> THEN <<>>
    ELSE IF t[Len(t)] \in Whitespace THEN RStrip(SubSeq(t, 1, Len(t) - 1)) ELSE t

strip(t) == RStrip(LStrip(t))

\* the messages the user types
UserTexts == {<<"q">>}

\* the lines of a response.  kind says what the server put on the line;
\* data says whether the line starts with "data: "; body is what
\* json.loads(line[6:]) gives: a decode failure, a value that is no object,
\* or an object
Line(kind, data, body) == [kind |-> kind, data |-> data, body |-> body]

Object(obj) == [json |-> "object", obj |-> obj]

ResponseLines ==
    {Line("text", TRUE, Object([v |-> <<"a">>])),
     Line("text", TRUE, Object([v |-> <<" ">>])),
     Line("tool_call", TRUE,
          Object([tc |-> [id |-> "c1", function |-> [name |-> "dummy_tool"]]])),
     Line("tool_result", TRUE,
          Object([tr |-> [tool_call_id |-> "c1", content |-> <<"r">>]])),
     Line("tool_result", TRUE,
          Object([tr |-> [tool_call_id |-> "c1", content |-> <<"r">>,
                          error |-> TRUE]])),
     Line("error", TRUE, Object([content |-> <<"e">>, type |-> "error"])),
     Line("full_response", TRUE,
          Object([full_response |-> <<>>, type |-> "full_response"])),
     Line("text", TRUE, Object([type |-> "text", content |-> <<"a">>])),
     Line("blank", FALSE, [json |-> "none"]),
     Line("garbage", TRUE, [json |-> "invalid"]),
     Line("number", TRUE, [json |-> "int"])}

\* chat_stream_with_history on one line: nothing, one chunk_data, or the
\* TypeError of '"v" in data' on a decoded value that is no container
client_event(line) ==
    IF ~line.data THEN Returns(<<>>)
    ELSE IF line.body.json = "invalid" THEN Returns(<<>>)
    ELSE IF line.body.json # "object"
    THEN Raises("TypeError", <<"argument of type '", line.body.json,
                               "' is not iterable">>)
    ELSE LET d == line.body.obj
         IN IF "v" \in DOMAIN d
            THEN Returns(<<[type |-> "text", content |-> d.v]>>)
            ELSE IF "tc" \in DOMAIN d
            THEN Returns(<<[type |-> "tool_call", payload |-> d.tc]>>)
            ELSE IF "tr" \in DOMAIN d
            THEN Returns(<<[type |-> "tool_result", payload |-> d.tr]>>)
            ELSE IF "type" \in DOMAIN d /\ d.type = "error"
            THEN Returns(<<[type |-> "error",
                            content |-> IF "content" \in DOMAIN d
                                        THEN d.content ELSE <<>>]>>)
            ELSE IF "type" \in DOMAIN d /\ d.type = "full_response"
            THEN Returns(<<[type |-> "full_response",
                            payload |-> IF "full_response" \in DOMAIN d
                                        THEN d.full_response ELSE <<>>]>>)
            ELSE Returns(<<d>>)

TypeOf(chunk_data) ==
    IF "type" \in DOMAIN chunk_data THEN chunk_data.type ELSE None

\* the body of "async for chunk_data in ..." of send_message
handle_chunk_data(ss, chunk_data) ==
    IF TypeOf(chunk_data) = "text"
    THEN LET content == IF "content" \in DOMAIN chunk_data
                        THEN chunk_data.content ELSE <<>>
         IN [ss EXCEPT !.assistant_content = @ \o content,
                       !.out = Append(@, "text")]
    ELSE IF TypeOf(chunk_data) = "tool_call"
    THEN [ss EXCEPT !.tool_calls_made = Append(@, chunk_data.payload),
                    !.out = Append(@, "tool_call")]
    ELSE IF TypeOf(chunk_data) = "tool_result"
    THEN [ss EXCEPT !.tool_results = Append(@, chunk_data.payload),
                    !.out = Append(@, IF "error" \in DOMAIN chunk_data.payload
                                         /\ chunk_data.payload.error = TRUE
                                      THEN "tool_error" ELSE "tool_completed")]
    ELSE IF TypeOf(chunk_data) = "error"
    THEN [ss EXCEPT !.out = Append(@, "error")]
    ELSE ss

SessionFrame ==
    UNCHANGED <<wiki, research_details, db_last, chat_history, chat_messages,
                new_messages, pc, closed_at, sent_tools, other,
                full_response_text, tool_calls_data, current_tool_calls, tc_i,
                args_json, exc, events, delivered, sent, arrived, texts,
                nchunks, calls>>

Ended(ss, how) ==
    [ss EXCEPT !.pc = "idle",
               !.log = [@ EXCEPT ![Len(@)].outcome = how]]

\* send_message up to the request: the user message is appended and the
\* locals are initialised
SendMessage ==
    /\ session.pc = "idle"
    /\ Len(session.log) < MaxSends
    /\ \E message \in UserTexts :
          session' = [session EXCEPT
                        !.messages = Append(@, [role |-> "user",
                                                content |-> message]),
                        !.assistant_content = <<>>,
                        !.tool_calls_made = <<>>,
                        !.tool_results = <<>>,
                        !.nlines = 0,
                        !.pc = "request",
                        !.log = Append(@, [message |-> message,
                                           received |-> <<>>,
                                           outcome |-> None])]
    /\ SessionFrame

\* request_data is built from self.messages and the response opens
OpenResponse ==
    /\ session.pc = "request"
    /\ session' = [session EXCEPT !.pc = "stream",
                                  !.requests = Append(@, session.messages)]
    /\ SessionFrame

\* no http_client, no connection, or raise_for_status raises
RequestRaises ==
    /\ session.pc = "request"
    /\ session' = Ended([session EXCEPT !.requests = Append(@, session.messages)],
                        "failed")
    /\ SessionFrame

\* one line of response.aiter_lines()
ReceiveLine ==
    /\ session.pc = "stream"
    /\ session.nlines < MaxLines
    /\ \E line \in ResponseLines :
          LET r == client_event(line)
              ss == [session EXCEPT
                       !.nlines = @ + 1,
                       !.log = [@ EXCEPT ![Len(@)].received =
                                   IF line.kind = "text"
                                   THEN Append(@, IF "v" \in DOMAIN line.body.obj
                                                  THEN line.body.obj.v
                                                  ELSE line.body.obj.content)
                                   ELSE @]]
          IN session' = IF r.raised THEN Ended(ss, "failed")
                        ELSE IF r.value = <<>> THEN ss
                        ELSE handle_chunk_data(ss, r.value[1])
    /\ SessionFrame

\* aiter_lines raises: the connection broke
ResponseBreaks ==
    /\ session.pc = "stream"
    /\ session' = Ended(session, "failed")
    /\ SessionFrame

\* the caller stops iterating send_message
Abandon ==
    /\ session.pc = "stream"
    /\ session' = Ended(session, "abandoned")
    /\ SessionFrame

\* variant: "if assistant_content:" without strip()
ResponseEnds_NoStrip ==
    /\ session.pc = "stream"
    /\ LET ss == IF session.assistant_content # <<>>
                 THEN [session EXCEPT
                         !.messages = Append(@, [role |-> "assistant",
                                                 content |-> session.assistant_content])]
                 ELSE session
       IN session' = Ended(ss, "consumed")
    /\ SessionFrame

\* the response ends: the assistant message is appended when the text is
\* not blank
ResponseEnds ==
    /\ session.pc = "stream"
    /\ LET ss == IF strip(session.assistant_content) # <<>>
                 THEN [session EXCEPT
                         !.messages = Append(@, [role |-> "assistant",
                                                 content |-> session.assistant_content])]
                 ELSE session
       IN session' = Ended(ss, "consumed")
    /\ SessionFrame

\* ------------------------------------------------------------------------
\* researcher.py and models/wikipedia_tool.py: one wikipedia_search call
\* ------------------------------------------------------------------------
\* what the request of search_wikipedia meets: a response with results, a
\* response without "query"/"search", httpx.RequestError from client.get,
\* HTTPStatusError from raise_for_status, a body that is no JSON, a result
\* without "title"
NetOutcomes ==
    {"results", "no_search", "RequestError", "HTTPStatusError",
     "JSONDecodeError", "KeyError"}

\* the accumulated arguments of the call
WikiPayloads == {<<"{", "}">>, <<"1">>, <<"{">>}

wiki_call_id == "w1"

\* search_wikipedia: every exception of its body is caught by one of its two
\* handlers and turned into a dict with success False
search_wikipedia(query, limit, net) ==
    IF net = "results"
    THEN [search_query |-> query, results |-> <<"page">>, total_results |-> 1,
          success |-> TRUE]
    ELSE IF net = "no_search"
    THEN [search_query |-> query, results |-> <<>>, total_results |-> 0,
          error |-> <<"No search results found">>]
    ELSE IF net = "RequestError"
    THEN [search_query |-> query, results |-> <<>>, total_results |-> 0,
          error |-> <<"Network error searching Wikipedia: ", net>>,
          success |-> FALSE]
    ELSE [search_query |-> query, results |-> <<>>, total_results |-> 0,
          error |-> <<"Error searching Wikipedia: ", net>>,
          success |-> FALSE]

\* _call_local_tool of the researcher: arguments.get("query", "") and
\* arguments.get("limit", 5) are evaluated before search_wikipedia is called
\* and raise on a decoded value that is no dict
researcher_call_local_tool(name, arguments, net) ==
    IF name = "wikipedia_search"
    THEN IF arguments.type = "dict"
         THEN Returns(search_wikipedia(<<>>, 5, net))
         ELSE Raises("AttributeError",
                     <<"'", arguments.type, "' object has no attribute 'get'">>)
    ELSE Raises("ValueError", <<"Unknown local tool: ", name>>)

WikiFrame ==
    UNCHANGED <<session, research_details, db_last, chat_history, chat_messages,
                new_messages, pc, closed_at, sent_tools, other,
                full_response_text, tool_calls_data, current_tool_calls, tc_i,
                args_json, exc, events, delivered, sent, arrived, texts,
                nchunks, calls>>

\* the for loop of the researcher reaches a call of wikipedia_search
WikiNextCall ==
    /\ wiki.pc = "idle"
    /\ wiki.ncalls < MaxWikiCalls
    /\ \E arguments \in WikiPayloads, net \in NetOutcomes :
          wiki' = [wiki EXCEPT !.pc = "parse", !.arguments = arguments,
                               !.net = net, !.ncalls = @ + 1]
    /\ WikiFrame

\* args_json = json.loads(arguments), with the JSONDecodeError handler
WikiParseArguments ==
    /\ wiki.pc = "parse"
    /\ LET r == json_loads(wiki.arguments)
       IN wiki' = IF r.raised
                  THEN [wiki EXCEPT !.pc = "call", !.args_json = EmptyDict,
                                    !.events = Append(@, Event("error",
                                                  ParseErrorMsg(wiki.arguments)))]
                  ELSE [wiki EXCEPT !.pc = "call", !.args_json = r.value]
    /\ WikiFrame

\* the tool returns: the "tool_result" yield and the tool message
WikiToolReturns ==
    /\ wiki.pc = "call"
    /\ LET r == researcher_call_local_tool("wikipedia_search", wiki.args_json,
                                           wiki.net)
       IN /\ ~r.raised
          /\ wiki' = [wiki EXCEPT
                        !.pc = "idle",
                        !.events = Append(@, Event("tool_result",
                                      [tr |-> [tool_call_id |-> wiki_call_id,
                                               content |-> json_dumps(r.value)]])),
                        !.messages = Append(@, [role |-> "tool",
                                                tool_call_id |-> wiki_call_id,
                                                content |-> json_dumps(r.value)])]
    /\ WikiFrame

\* the call raises: the handler's "error" yield
WikiToolRaises ==
    /\ wiki.pc = "call"
    /\ LET r == researcher_call_local_tool("wikipedia_search", wiki.args_json,
                                           wiki.net)
       IN /\ r.raised
          /\ wiki' = [wiki EXCEPT
                        !.pc = "except",
                        !.exc = r,
                        !.events = Append(@, Event("error",
                                      CallErrorMsg("wikipedia_search", r)))]
    /\ WikiFrame

\* the rest of the handler: the error tool message and the "tool_result"
\* yield with error: True
WikiAppendErrorToolMessage ==
    /\ wiki.pc = "except"
    /\ LET content == ErrorContent("wikipedia_search", wiki.exc)
       IN wiki' = [wiki EXCEPT
                     !.pc = "idle",
                     !.messages = Append(@, [role |-> "tool",
                                             tool_call_id |-> wiki_call_id,
                                             content |-> content]),
                     !.events = Append(@, Event("tool_result",
                                   [tr |-> [tool_call_id |-> wiki_call_id,
                                            content |-> content,
                                            error |-> TRUE]]))]
    /\ WikiFrame

\* ------------------------------------------------------------------------
\* database.py: the table research_details
\* ------------------------------------------------------------------------
\* research_details is the set of rows [researchID, details, logs]; details
\* and logs are the serialized texts.  researchID is the PRIMARY KEY.
Details == {"d1", "d2"}

Logs == {"l1", "l2"}

HasRow(table, research_id) == \E r \in table : r.researchID = research_id

DbOutcome(table, result) == [table |-> table, result |-> result]

\* update_research_details: nothing to update gives False; else UPDATE ...
\* WHERE researchID = ? on a connection of its own, then rowcount > 0.
\* "locked" says that another connection holds the write lock of the file:
\* the UPDATE then waits for the busy timeout and raises OperationalError.
update_research_details(table, locked, research_id, details, logs) ==
    IF details = None /\ logs = None
    THEN DbOutcome(table, Returns(FALSE))
    ELSE IF locked
    THEN DbOutcome(table, Raises("OperationalError", <<"database is locked">>))
    ELSE DbOutcome({IF r.researchID = research_id
                    THEN [researchID |-> r.researchID,
                          details |-> IF details # None THEN details ELSE r.details,
                          logs |-> IF logs # None THEN logs ELSE r.logs]
                    ELSE r : r \in table},
                   Returns(HasRow(table, research_id)))

\* insert_research_details: INSERT, commit and True; on IntegrityError (the
\* researchID has a row) the handler calls update_research_details while
\* still inside "with sqlite3.connect(...) as conn": the failed INSERT has
\* opened the write transaction of conn, which is neither committed nor
\* rolled back before the handler returns, so the second connection finds
\* the file locked.
insert_research_details(table, research_id, details, logs) ==
    IF ~HasRow(table, research_id)
    THEN DbOutcome(table \cup {[researchID |-> research_id, details |-> details,
                                logs |-> logs]},
                   Returns(TRUE))
    ELSE update_research_details(table, TRUE, research_id, details, logs)

DbCall(op, research_id, details, logs, result) ==
    [op |-> op, research_id |-> research_id, details |-> details,
     logs |-> logs, result |-> result]

ChatVars ==
    <<chat_history, chat_messages, new_messages, pc, closed_at, sent_tools,
      other, full_response_text, tool_calls_data, current_tool_calls, tc_i,
      args_json, exc, events, delivered, sent, arrived, texts, nchunks, calls>>

\* a call db.insert_research_details(research_id, details, logs)
InsertResearchDetails ==
    \E research_id \in 1..MaxResearchId, details \in Details, logs \in Logs :
        LET r == insert_research_details(research_details, research_id,
                                         details, logs)
        IN /\ research_details' = r.table
           /\ db_last' = DbCall("insert", research_id, details, logs, r.result)
           /\ UNCHANGED <<session, wiki, ChatVars>>

\* a call db.update_research_details(research_id, details, logs), details
\* and logs defaulting to None
UpdateResearchDetails ==
    \E research_id \in 1..MaxResearchId, details \in Details \cup {None},
       logs \in Logs \cup {None} :
        LET r == update_research_details(research_details, FALSE, research_id,
                                         details, logs)
        IN /\ research_details' = r.table
           /\ db_last' = DbCall("update", research_id, details, logs, r.result)
           /\ UNCHANGED <<session, wiki, ChatVars>>

\* ------------------------------------------------------------------------
\* Specifications
\* ------------------------------------------------------------------------
Next ==
    \/ Start
    \/ RequestStream
    \/ RequestFails
    \/ LoopChunk
    \/ StreamFails
    \/ StreamEndToolCalls
    \/ AnnounceNext
    \/ AppendAssistant
    \/ StreamEndNoToolCalls
    \/ AfterLoop
    \/ ParseArguments
    \/ InvokeTool
    \/ UnknownTool
    \/ ToolReturns
    \/ ToolRaises
    \/ AppendToolMessage
    \/ AppendErrorToolMessage

Spec == Init /\ [][Next]_vars

\* the accumulator on one stream, fed from the wider chunk set
NextFold ==
    \/ Start
    \/ RequestStream
    \/ FoldChunk
    \/ StreamEndToolCalls
    \/ AnnounceNext
    \/ AppendAssistant
    \/ StreamEndNoToolCalls

\* one caller history is enough for the accumulator
InitFold == Init /\ chat_history = <<user_message>>

FoldSpec == InitFold /\ [][NextFold]_vars

\* the loop with a consumer that may stop iterating at any point
NextDetach ==
    \/ Next
    \/ Detach

DetachSpec == Init /\ [][NextDetach]_vars

\* the loop under a scheduler that resumes the generator whenever it can
\* take a step: the consumer keeps iterating, the provider ends or breaks
\* every stream, every tool returns or raises
InitFair == Init /\ chat_history = <<user_message>>

FairSpec == InitFair /\ [][Next]_vars /\ WF_vars(Next)

\* a ChatSession used for several messages
NextSession ==
    \/ SendMessage
    \/ OpenResponse
    \/ RequestRaises
    \/ ReceiveLine
    \/ ResponseBreaks
    \/ Abandon
    \/ ResponseEnds

SessionSpec == InitFair /\ [][NextSession]_vars

\* the researcher executing calls of wikipedia_search
NextWiki ==
    \/ WikiNextCall
    \/ WikiParseArguments
    \/ WikiToolReturns
    \/ WikiToolRaises
    \/ WikiAppendErrorToolMessage

WikiSpec == InitFair /\ [][NextWiki]_vars

\* the calls of the database, in any order
NextDb ==
    \/ InsertResearchDetails
    \/ UpdateResearchDetails

DbSpec == InitFair /\ [][NextDb]_vars

\* two interleaved runs: POST /chat twice, both served by litellm_client
PairChunk == \E chunk \in PairChunks : ConsumeChunk(chunk)

NextPair ==
    \/ Start
    \/ RequestStream
    \/ PairChunk
    \/ StreamEndToolCalls
    \/ AnnounceNext
    \/ AppendAssistant
    \/ StreamEndNoToolCalls
    \/ AfterLoop
    \/ ParseArguments
    \/ InvokeTool
    \/ ToolReturns
    \/ AppendToolMessage
    \/ SwitchRun

InitPair == Init /\ chat_history = <<user_message>>

PairSpec == InitPair /\ [][NextPair]_vars


\* ------------------------------------------------------------------------
\* Helpers of the properties
\* ------------------------------------------------------------------------
Last(seq) == seq[Len(seq)]

\* concatenation of a sequence of texts
RECURSIVE Flatten(_)
Flatten(ss) == IF ss = <<>> THEN <<>> ELSE Head(ss) \o Flatten(Tail(ss))

\* the argument fragments of the deltas that carry index i, in arrival order
RECURSIVE FragmentsOf(_, _)
FragmentsOf(ds, i) ==
    IF ds = <<>> THEN <<>>
    ELSE IF Head(ds).index = i
         THEN <<Head(ds).function.arguments>> \o FragmentsOf(Tail(ds), i)
         ELSE FragmentsOf(Tail(ds), i)

IndexesOf(ds) == {ds[k].index : k \in 1..Len(ds)}

MaxOf(S) == CHOOSE m \in S : \A n \in S : n <= m

StreamEnded == pc \in {"announce", "parse", "break"}

\* ------------------------------------------------------------------------
\* C1: after the stream has ended (and at every point before), the arguments
\* of every record are the concatenation, in arrival order, of exactly the
\* argument fragments of the deltas that carried the record's index.
\* ------------------------------------------------------------------------
C1_ArgumentsAreConcatenation ==
    \A i \in 1..Len(tool_calls_data) :
        tool_calls_data[i].function.arguments = Flatten(FragmentsOf(arrived, i - 1))

\* two fragments of one index, split by a fragment of another index, are
\* reassembled at stream end
C1_Witness ==
    /\ StreamEnded
    /\ nchunks = 3
    /\ Len(arrived) = 3
    /\ arrived[1].index = arrived[3].index
    /\ arrived[2].index # arrived[1].index
    /\ \A k \in 1..3 : Len(arrived[k].function.arguments) = 1
    /\ tool_calls_data[arrived[1].index + 1].function.arguments = <<"{", "}">>

\* ------------------------------------------------------------------------
\* C2: the content of the assistant message appended at stream end is the
\* concatenation of the text chunks of the stream in arrival order.
\* ------------------------------------------------------------------------
C2_ContentIsConcatenation ==
    /\ pc = "stream" => full_response_text = Flatten(texts)
    /\ pc \in {"parse", "break"} =>
          /\ new_messages # <<>>
          /\ Last(new_messages).role = "assistant"
          /\ Last(new_messages).content = Flatten(texts)
          /\ Last(chat_messages) = Last(new_messages)

C2_Witness ==
    /\ pc = "break"
    /\ texts = << <<"b">>, <<"a">>, <<"a">> >>
    /\ Last(new_messages).content = <<"b", "a", "a">>

\* ------------------------------------------------------------------------
\* C3: while the deltas of a stream are folded the collection never shrinks,
\* its length is 1 + the largest index seen, a position no delta has named
\* holds the empty placeholder, and a delta changes no record but its own.
\* ------------------------------------------------------------------------
C3_State ==
    /\ Len(tool_calls_data) =
          IF arrived = <<>> THEN 0 ELSE 1 + MaxOf(IndexesOf(arrived))
    /\ \A i \in 1..Len(tool_calls_data) :
          (i - 1) \notin IndexesOf(arrived) => tool_calls_data[i] = Placeholder

C3_Step ==
    (pc = "stream" /\ pc' = "stream") =>
        /\ Len(tool_calls_data') >= Len(tool_calls_data)
        /\ LET new == SubSeq(arrived', Len(arrived) + 1, Len(arrived'))
           IN \A i \in 1..Len(tool_calls_data) :
                 (i - 1) \notin IndexesOf(new) =>
                     tool_calls_data'[i] = tool_calls_data[i]

C3_IndexStability == []C3_State /\ [][C3_Step]_vars

\* a delta at index 2 came first, the placeholder at index 0 was filled later
C3_Witness ==
    /\ pc = "stream"
    /\ Len(arrived) = 2
    /\ arrived[1].index = 2
    /\ arrived[2].index = 0
    /\ Len(tool_calls_data) = 3
    /\ tool_calls_data[1].id = "c1"
    /\ tool_calls_data[2] = Placeholder
    /\ tool_calls_data[3].id = "c2"


\* ------------------------------------------------------------------------
\* Helpers of the loop properties
\* ------------------------------------------------------------------------
ToolCallsOf(msg) == IF "tool_calls" \in DOMAIN msg THEN msg.tool_calls ELSE <<>>

IdsOf(recs) == [j \in 1..Len(recs) |-> recs[j].id]

Prefix(seq, n) == SubSeq(seq, 1, n)

IsToolCallEvent(e) == e.event_type = "tool_call"

IsToolResultEvent(e) == e.event_type = "tool_result"

IsFullResponseEvent(e) == e.event_type = "full_response"

IsProviderErrorEvent(e) ==
    e.event_type = "error" /\ e.event_data[1] = "[Error during API call]: "

IsToolMessage(msg) == msg.role = "tool"

IsAssistantMessage(msg) == msg.role = "assistant"

\* position of the last element of seq that satisfies Test, 0 when none does
LastPos(seq, Test(_)) ==
    LET S == {k \in 1..Len(seq) : Test(seq[k])}
    IN IF S = {} THEN 0 ELSE MaxOf(S)

\* the events yielded after the last announcement
EventsOfTurn == SubSeq(events, LastPos(events, IsToolCallEvent) + 1, Len(events))

\* tool_call_id of the tool_result events of the turn, in emission order
ResultIdsOfTurn ==
    LET sel == SelectSeq(EventsOfTurn, IsToolResultEvent)
    IN [j \in 1..Len(sel) |-> sel[j].event_data.tr.tool_call_id]

\* tool_call_id of the tool messages that follow the last assistant message
ToolMessageIdsOfTurn ==
    LET p == LastPos(chat_messages, IsAssistantMessage)
        tail == SubSeq(chat_messages, p + 1, Len(chat_messages))
    IN [j \in 1..Len(tail) |-> tail[j].tool_call_id]

ExecPcs == {"parse", "call", "await", "append", "except"}

\* the calls of the turn whose tool_result has been yielded
ResultsDue ==
    IF pc = "request" THEN Len(tool_calls_data)
    ELSE IF pc = "append" THEN tc_i
    ELSE IF pc \in ExecPcs THEN tc_i - 1
    ELSE 0

\* the calls of the turn whose tool message has been appended
MessagesDue ==
    IF pc = "request" THEN Len(tool_calls_data)
    ELSE IF pc \in ExecPcs THEN tc_i - 1
    ELSE 0

\* ------------------------------------------------------------------------
\* C4: the message list of every provider request after the first is the
\* previous list, then the assistant message of the previous turn with
\* n >= 1 tool calls, then exactly n tool messages whose tool_call_id are the
\* ids of those calls in order.
\* ------------------------------------------------------------------------
C4_LogShapeAtRequest ==
    \A k \in 2..Len(sent) :
        LET prev == sent[k - 1]
            cur == sent[k]
            p == Len(prev) + 1
        IN /\ Len(cur) > Len(prev)
           /\ Prefix(cur, Len(prev)) = prev
           /\ cur[p].role = "assistant"
           /\ LET tcs == ToolCallsOf(cur[p])
                  n == Len(tcs)
              IN /\ n >= 1
                 /\ Len(cur) = p + n
                 /\ \A j \in 1..n :
                       /\ cur[p + j].role = "tool"
                       /\ cur[p + j].tool_call_id = tcs[j].id

\* second request after a turn of two calls: the first raised in the tool,
\* the second had undecodable arguments and succeeded on the empty set
C4_Witness ==
    /\ Len(sent) = 2
    /\ LET cur == sent[2]
           p == Len(sent[1]) + 1
       IN /\ Len(ToolCallsOf(cur[p])) = 2
          /\ cur[p + 1].content[1] = "Error executing tool '"
          /\ cur[p + 2].content[1] = "json"
          /\ cur[p + 1].tool_call_id = "c1"
          /\ cur[p + 2].tool_call_id = "c2"

Touched(i) ==
    \/ calls[i].started > 0
    \/ calls[i].results # <<>>
    \/ calls[i].appended # <<>>
    \/ (pc \in ExecPcs /\ tc_i >= i)

InFlight == {i \in 1..Len(calls) : calls[i].started > calls[i].returned}

C6_SequentialExecution ==
    calls # <<>> =>
        /\ \A i \in 1..Len(calls) :
              /\ calls[i].started <= 1
              /\ calls[i].returned <= calls[i].started
        /\ Cardinality(InFlight) <= 1
        /\ InFlight # {} <=> pc = "await"
        /\ \A i \in 2..Len(calls) :
              Touched(i) => /\ Len(calls[i - 1].results) = 1
                            /\ Len(calls[i - 1].appended) = 1
                            /\ calls[i - 1].returned = calls[i - 1].started
        /\ ResultIdsOfTurn = Prefix(IdsOf(tool_calls_data), Len(ResultIdsOfTurn))
        /\ pc \in ExecPcs \cup {"request"} =>
              ToolMessageIdsOfTurn = Prefix(IdsOf(tool_calls_data), MessagesDue)

\* the second call of a turn is in flight after the first one completed
C6_Witness ==
    /\ pc = "await"
    /\ tc_i = 2
    /\ calls[1].started = 1
    /\ calls[1].returned = 1
    /\ calls[1].results = <<"c1">>
    /\ calls[1].appended = <<"c1">>
    /\ InFlight = {2}

\* ------------------------------------------------------------------------
\* C7: a stream that ends without tool calls gives exactly one full_response
\* event, which lists the messages appended since the run began, and no
\* provider request follows it.
\* ------------------------------------------------------------------------
FullResponseCount == Len(SelectSeq(events, IsFullResponseEvent))

C7_ExactlyOneFinalResponse ==
    /\ FullResponseCount <= 1
    /\ (pc = "done" /\ ~IsProviderErrorEvent(Last(events))) =>
          /\ FullResponseCount = 1
          /\ Last(events) = Event("full_response", new_messages)
          /\ ToolCallsOf(Last(new_messages)) = <<>>

\* ------------------------------------------------------------------------
\* C8: a provider failure, at the request or in the stream, gives exactly
\* one error event and ends the run: nothing is appended with it and no
\* event, request, tool execution or append follows it.
\* ------------------------------------------------------------------------
ProviderFailed == events # <<>> /\ IsProviderErrorEvent(Last(events))

C8_State ==
    /\ \A k \in 1..Len(events) :
          IsProviderErrorEvent(events[k]) =>
              /\ k = Len(events)
              /\ pc = "done"
              /\ FullResponseCount = 0
    /\ (pc = "done" /\ FullResponseCount = 0) => ProviderFailed

C8_Step ==
    /\ ~ProviderFailed
    /\ (events' # <<>> /\ IsProviderErrorEvent(Last(events'))) =>
          /\ Len(events') = Len(events) + 1
          /\ chat_messages' = chat_messages
          /\ new_messages' = new_messages
          /\ calls' = <<>> \/ calls' = calls

C8_ProviderFailureIsFatal == []C8_State /\ [][C8_Step]_vars

\* the stream of the second request broke after a text chunk
C8_Witness ==
    /\ pc = "done"
    /\ ProviderFailed
    /\ Len(sent) = 2
    /\ Len(events) >= 2
    /\ events[Len(events) - 1].event_type = "chunk"
    /\ Len(new_messages) >= 2

\* ------------------------------------------------------------------------
\* C9: no tool failure ends the run: in a turn with a call whose arguments
\* do not decode, whose tool is unknown or whose tool raises, the loop can
\* always go on to the next step, reaches the next request with one tool
\* message per call, and that request carries those messages.
\* ------------------------------------------------------------------------
Undecodable(rec) == json_loads(rec.function.arguments).raised

Unknown(rec) == rec.function.name \notin local_tool_names

RaisesInTool(rec) ==
    /\ ~Unknown(rec)
    /\ LET r == json_loads(rec.function.arguments)
       IN call_local_tool(rec.function.name,
                          IF r.raised THEN EmptyDict ELSE r.value).raised

FailedCall(rec) == Undecodable(rec) \/ Unknown(rec) \/ RaisesInTool(rec)

HasFailedCall(recs) == \E i \in 1..Len(recs) : FailedCall(recs[i])

ExecStep ==
    \/ ParseArguments
    \/ InvokeTool
    \/ UnknownTool
    \/ ToolReturns
    \/ ToolRaises
    \/ AppendToolMessage
    \/ AppendErrorToolMessage

IsSentinel(d) ==
    /\ "type" \in DOMAIN d
    /\ \/ d.type = "full_response"
       \/ d.type = "error" /\ d.content[1] = "[Error during API call]: "

C10_SentinelIsLast ==
    /\ \A k \in 1..Len(delivered) : IsSentinel(delivered[k]) => k = Len(delivered)
    /\ pc = "done" =>
          /\ delivered # <<>>
          /\ IsSentinel(Last(delivered))
          /\ Last(delivered).type =
                IF ProviderFailed THEN "error" ELSE "full_response"

\* ------------------------------------------------------------------------
\* C11: a consumer that detaches does not stop the loop: whenever the
\* consumer has stopped iterating, every call of a registered tool that was
\* announced before that point has been started (its tool still runs).
\* ------------------------------------------------------------------------
\* the calls of the turn announced when the consumer stopped iterating
AnnouncedAtClose == IF closed_at = "announce" THEN tc_i ELSE Len(calls)

C11_AnnouncedCallsStillRun ==
    pc = "closed" =>
        \A j \in 1..AnnouncedAtClose :
            ~Unknown(tool_calls_data[j]) => calls[j].started > 0

\* ------------------------------------------------------------------------
\* C12: the loop's progress does not depend on the consumer: as long as the
\* run has not ended (and the request bound of the model is not reached) a
\* step of the loop is possible, whatever the consumer does.
\* ------------------------------------------------------------------------
RequestBoundReached == pc = "request" /\ Len(sent) >= MaxRequests

C12_ProgressWithoutConsumer ==
    (pc # "done" /\ ~RequestBoundReached) => ENABLED Next

\* ------------------------------------------------------------------------
\* C13: what the attached caller gets is what the loop produced: one payload
\* per event, in the order of the events; text chunks, announcements and
\* tool results as the loop formatted them, errors and the final response in
\* their envelope.
\* ------------------------------------------------------------------------
C13_DeliveryIsFaithful ==
    /\ Len(delivered) = Len(events)
    /\ \A k \in 1..Len(events) :
          LET e == events[k]
              d == delivered[k]
          IN CASE e.event_type \in {"chunk", "tool_call", "tool_result"} ->
                      d = e.event_data
               [] e.event_type = "error" ->
                      /\ DOMAIN d = {"content", "type"}
                      /\ d.type = "error"
                      /\ d.content = e.event_data
               [] e.event_type = "full_response" ->
                      /\ DOMAIN d = {"full_response", "type"}
                      /\ d.type = "full_response"
                      /\ d.full_response = e.event_data
               [] OTHER -> FALSE

\* a run that produced every kind of event has ended
C13_Witness ==
    /\ pc = "done"
    /\ {events[k].event_type : k \in 1..Len(events)} =
          {"chunk", "tool_call", "tool_result", "error", "full_response"}
    /\ Len(delivered) = Len(events)
    /\ Len(delivered) >= 5

\* ------------------------------------------------------------------------
\* Helpers of the per-call properties
\* ------------------------------------------------------------------------
IsErrorEvent(e) == e.event_type = "error"

IsParseErrorEvent(e) ==
    /\ e.event_type = "error"
    /\ e.event_data[1] = "[Error parsing tool arguments]: Invalid JSON: "

\* position in EventsOfTurn of the j-th tool_result event, 0 for j = 0
ResultPos(j) ==
    LET P == {k \in 1..Len(EventsOfTurn) : IsToolResultEvent(EventsOfTurn[k])}
    IN IF j = 0 THEN 0
       ELSE CHOOSE k \in P : Cardinality({m \in P : m <= k}) = j

ResultCount == Len(SelectSeq(EventsOfTurn, IsToolResultEvent))

\* the events of the j-th call of the turn: those after the tool_result of
\* call j - 1, up to and including its own tool_result
CallEvents(j) == SubSeq(EventsOfTurn, ResultPos(j - 1) + 1, ResultPos(j))

\* the tool_result payload of the j-th call
ResultOf(j) == EventsOfTurn[ResultPos(j)].event_data.tr

\* the events of the call in progress
PendingEvents ==
    SubSeq(EventsOfTurn, ResultPos(ResultCount) + 1, Len(EventsOfTurn))

\* the tool message of the j-th call of the turn
ToolMessageOf(j) == chat_messages[LastPos(chat_messages, IsAssistantMessage) + j]

ArgumentsOf(rec) == rec.function.arguments

ErrorCount(j) == Len(SelectSeq(CallEvents(j), IsErrorEvent))

HasErrorFlag(tr) == "error" \in DOMAIN tr /\ tr.error = TRUE

NameOf(rec) == rec.function.name

C16_UnknownToolContent ==
    calls # <<>> =>
        /\ pc # "done"
        /\ \A j \in 1..ResultCount :
              Unknown(tool_calls_data[j]) =>
                  /\ HasErrorFlag(ResultOf(j))
                  /\ ResultOf(j).content =
                        <<"Unknown tool: ", NameOf(tool_calls_data[j])>>

\* C16 as it holds: the content of the tool_result, and of the tool message
\* appended before it, is "Error executing tool '<name>': Unknown tool:
\* <name>"; an error event "[Error calling tool <name>]: ValueError: Unknown
\* tool: <name>" precedes it; the tool is not invoked and the run goes on.
UnknownToolText(name) ==
    <<"Error executing tool '", name, "': ", <<"Unknown tool: ", name>>>>

C16_UnknownToolIsWrapped ==
    calls # <<>> =>
        /\ pc # "done"
        /\ \A j \in 1..ResultCount :
              LET rec == tool_calls_data[j]
                  ev == CallEvents(j)
              IN Unknown(rec) =>
                    /\ ResultOf(j) = [tool_call_id |-> rec.id,
                                      content |-> UnknownToolText(NameOf(rec)),
                                      error |-> TRUE]
                    /\ Len(ev) >= 2
                    /\ ev[Len(ev) - 1] =
                          Event("error",
                                <<"[Error calling tool ", NameOf(rec), "]: ",
                                  "ValueError", ": ",
                                  <<"Unknown tool: ", NameOf(rec)>>>>)
                    /\ calls[j].started = 0
                    /\ calls[j].appended = <<rec.id>>
                    /\ ToolMessageOf(j) = [role |-> "tool",
                                           tool_call_id |-> rec.id,
                                           content |-> UnknownToolText(NameOf(rec))]
        /\ (pc = "request" /\ Len(sent) < MaxRequests) => ENABLED RequestStream

\* a turn with a call of the unknown tool "bogus" is over
C16_Witness ==
    /\ pc = "request"
    /\ ResultCount >= 1
    /\ NameOf(tool_calls_data[1]) = "bogus"
    /\ ResultOf(1).content = UnknownToolText("bogus")
    /\ ToolMessageOf(1).content = UnknownToolText("bogus")
    /\ ToolMessageOf(1).tool_call_id = "c1"

\* ------------------------------------------------------------------------
\* C17: a failure raised by a registered tool stays inside the loop: the
\* call gets a tool_result with error = true and the content "Error
\* executing tool '<name>': <cause>", the tool message of the call has the
\* same content, and the run neither ends nor reports a provider failure.
\* ------------------------------------------------------------------------
\* what the tool of a record raises when invoked with its decoded arguments
CauseOf(rec) ==
    LET r == json_loads(ArgumentsOf(rec))
    IN call_local_tool(NameOf(rec), IF r.raised THEN EmptyDict ELSE r.value)

C17_ToolFailureIsReported ==
    /\ calls # <<>> =>
          /\ pc # "done"
          /\ \A k \in 1..Len(EventsOfTurn) : ~IsProviderErrorEvent(EventsOfTurn[k])
          /\ \A j \in 1..ResultCount :
                LET rec == tool_calls_data[j]
                    text == <<"Error executing tool '", NameOf(rec), "': ",
                              CauseOf(rec).msg>>
                IN RaisesInTool(rec) =>
                      /\ calls[j].started = 1
                      /\ calls[j].returned = 1
                      /\ ResultOf(j) = [tool_call_id |-> rec.id,
                                        content |-> text,
                                        error |-> TRUE]
                      /\ ToolMessageOf(j) = [role |-> "tool",
                                             tool_call_id |-> rec.id,
                                             content |-> text]
    /\ pc = "except" => ENABLED AppendErrorToolMessage

\* dummy_tool raised on integer arguments; its turn is over
C17_Witness ==
    /\ pc = "request"
    /\ ResultCount = 1
    /\ NameOf(tool_calls_data[1]) = "dummy_tool"
    /\ ArgumentsOf(tool_calls_data[1]) = <<"1">>
    /\ calls[1].returned = 1
    /\ ResultOf(1).error = TRUE
    /\ ResultOf(1).content =
          <<"Error executing tool '", "dummy_tool", "': ",
            <<"'", "int", "' object has no attribute 'get'">>>>
    /\ ToolMessageOf(1).content = ResultOf(1).content

\* ------------------------------------------------------------------------
\* Helpers of the id and name properties
\* ------------------------------------------------------------------------
\* a value the code's truthiness test lets through
NonEmpty(v) == v # None /\ v # ""

\* the deltas of ds that carry index i, in arrival order
DeltasOf(ds, i) == SelectSeq(ds, LAMBDA d : d.index = i)

HasNonEmptyId(d) == NonEmpty(d.id)

HasNonEmptyName(d) == NonEmpty(d.function.name)

\* ------------------------------------------------------------------------
\* C18: the id of a record is the first non-empty id that a delta of its
\* index carried (empty while none did): a later delta of the same index
\* with another non-empty id does not change it.
\* ------------------------------------------------------------------------
C18_IdFirstWriteWins ==
    \A i \in 1..Len(tool_calls_data) :
        LET withId == SelectSeq(DeltasOf(arrived, i - 1), HasNonEmptyId)
        IN tool_calls_data[i].id = IF withId = <<>> THEN "" ELSE withId[1].id

\* ------------------------------------------------------------------------
\* C19: the name of a record is the first non-empty name that a delta of its
\* index carried (empty while none did): a later delta of the same index
\* with another non-empty name does not change it.
\* ------------------------------------------------------------------------
C19_NameFirstWriteWins ==
    \A i \in 1..Len(tool_calls_data) :
        LET withName == SelectSeq(DeltasOf(arrived, i - 1), HasNonEmptyName)
        IN tool_calls_data[i].function.name =
              IF withName = <<>> THEN "" ELSE withName[1].function.name

\* ------------------------------------------------------------------------
\* C20: the message log only grows: no step removes or changes a message of
\* chat_messages or new_messages (an assistant message's tool_calls list
\* included), the list of each provider request is a prefix of the list of
\* the next one and of the log as it is now, and the lists already sent
\* stay as they were sent.
\* ------------------------------------------------------------------------
IsPrefixOf(a, b) == Len(a) <= Len(b) /\ SubSeq(b, 1, Len(a)) = a

C20_State ==
    /\ \A k \in 1..Len(sent) :
          /\ k < Len(sent) => IsPrefixOf(sent[k], sent[k + 1])
          /\ IsPrefixOf(sent[k], chat_messages)
    /\ IsPrefixOf(chat_history, chat_messages)
          \/ IsPrefixOf(<<system_prompt>> \o chat_history, chat_messages)
          \/ chat_messages = <<>>
    \* the list of the last assistant message is the object tool_calls_data
    \* names until the next request rebinds that name
    /\ pc \in ExecPcs =>
          ToolCallsOf(chat_messages[LastPos(chat_messages, IsAssistantMessage)])
              = tool_calls_data

C20_Step ==
    /\ IsPrefixOf(chat_messages, chat_messages')
    /\ IsPrefixOf(new_messages, new_messages')
    /\ IsPrefixOf(sent, sent')
    /\ Len(chat_messages') - Len(chat_messages) = Len(new_messages') - Len(new_messages)
          \/ pc = "start"
    \* no step writes to the records once the stream has ended
    /\ pc \in ExecPcs \cup {"announce"} => tool_calls_data' = tool_calls_data

C20_LogOnlyGrows == []C20_State /\ [][C20_Step]_vars

\* the second request was sent with a longer list than the first, and the
\* log has grown again since
C20_Witness ==
    /\ Len(sent) = 2
    /\ Len(sent[2]) >= Len(sent[1]) + 2
    /\ Len(chat_messages) > Len(sent[2])
    /\ ToolCallsOf(sent[2][Len(sent[1]) + 1]) # <<>>
    /\ chat_messages[Len(sent[1]) + 1] = sent[2][Len(sent[1]) + 1]

\* ------------------------------------------------------------------------
\* C21: two runs interleaved on the one client do not share state: whichever
\* run is executing and whichever is suspended, a run's accumulator is the
\* fold of its own chunks, its log is its own history (with the system
\* prompt) followed by its own new messages, the lists it sent are prefixes
\* of its own log, its text events are its own text chunks and its final
\* response lists its own new messages.
\* ------------------------------------------------------------------------
StartedLog(history) ==
    IF has_system_message(history) THEN history ELSE <<system_prompt>> \o history

IsChunkEvent(e) == e.event_type = "chunk"

RunAlone(F) ==
    /\ F.tool_calls_data = FoldDeltas(<<>>, F.arrived)
    /\ F.pc = "stream" => F.full_response_text = Flatten(F.texts)
    /\ F.pc # "start" =>
          F.chat_messages = StartedLog(F.chat_history) \o F.new_messages
    /\ \A k \in 1..Len(F.sent) :
          /\ Len(F.sent[k]) <= Len(F.chat_messages)
          /\ SubSeq(F.chat_messages, 1, Len(F.sent[k])) = F.sent[k]
    /\ F.pc = "stream" =>
          LET n == Len(SelectSeq(F.texts, LAMBDA t : t # <<>>))
              own == SubSeq(F.events, Len(F.events) - n + 1, Len(F.events))
          IN /\ n <= Len(F.events)
             /\ own = [k \in 1..n |->
                          Event("chunk", [v |-> SelectSeq(F.texts, LAMBDA t : t # <<>>)[k]])]
    /\ F.pc \in {"parse", "break"} =>
          LET last == F.new_messages[LastPos(F.new_messages, IsAssistantMessage)]
          IN /\ last.content = Flatten(F.texts)
             /\ ToolCallsOf(last) = F.tool_calls_data
    /\ F.pc = "done" =>
          /\ F.events[Len(F.events)] = Event("full_response", F.new_messages)
          /\ Len(F.delivered) = Len(F.events)

C21_RunsDoNotInterfere == RunAlone(CurrentFrame) /\ RunAlone(other)

\* both runs are in the middle of a stream with different accumulators, and
\* the suspended one has already been executing
C21_Witness ==
    /\ pc = "stream"
    /\ other.pc = "stream"
    /\ tool_calls_data # <<>>
    /\ other.tool_calls_data = <<>>
    /\ other.full_response_text = <<"a", "a">>
    /\ full_response_text = <<"a">>
    /\ chat_history # other.chat_history

\* ------------------------------------------------------------------------
\* C22: every provider request carries the whole log as it is at that moment
\* and the schema of every registered tool; the first request carries the
\* caller's history, preceded by the one default system prompt exactly when
\* the history has no message of role "system" at any position, and no
\* request ever carries more system messages than that.
\* ------------------------------------------------------------------------
IsSystemMessage(msg) == msg.role = "system"

SystemCount(msgs) == Len(SelectSeq(msgs, IsSystemMessage))

C22_State ==
    /\ Len(sent_tools) = Len(sent)
    /\ \A k \in 1..Len(sent_tools) :
          /\ Len(sent_tools[k]) = 1
          /\ sent_tools[k][1].type = "function"
          /\ sent_tools[k][1].function.name = "dummy_tool"
          /\ {sent_tools[k][i].function.name : i \in 1..Len(sent_tools[k])}
                = local_tool_names
    /\ sent # <<>> =>
          sent[1] = IF SystemCount(chat_history) = 0
                    THEN <<[role |-> "system",
                            content |-> <<"You are a helpful assistant.">>]>>
                         \o chat_history
                    ELSE chat_history
    /\ \A k \in 1..Len(sent) :
          SystemCount(sent[k]) = IF SystemCount(chat_history) = 0
                                 THEN 1
                                 ELSE SystemCount(chat_history)
    /\ (sent # <<>> /\ pc = "stream") => Last(sent) = chat_messages

C22_Step ==
    Len(sent') > Len(sent) =>
        /\ sent' = Append(sent, chat_messages)
        /\ chat_messages' = chat_messages
        /\ Len(sent_tools') = Len(sent_tools) + 1

C22_RequestCarriesLogAndTools == []C22_State /\ [][C22_Step]_vars

\* the second request of a run whose history has its system message after
\* the user message: the log was sent without a default prompt
C22_Witness ==
    /\ Len(sent) = 2
    /\ Len(chat_history) = 2
    /\ chat_history[1].role = "user"
    /\ chat_history[2].role = "system"
    /\ sent[1] = chat_history
    /\ Len(sent[2]) > Len(sent[1])
    /\ Len(sent_tools) = 2

\* ------------------------------------------------------------------------
\* C23: the loop ends only on a turn without tool calls or on a provider
\* failure, and it does end then; after a turn with tool calls it is back at
\* the request, which nothing but the bound of the model holds back.  Under
\* fair scheduling every run ends or reaches that bound.
\* ------------------------------------------------------------------------
LastAssistant == new_messages[LastPos(new_messages, IsAssistantMessage)]

C23_State ==
    /\ pc = "break" => ToolCallsOf(LastAssistant) = <<>>
    /\ pc = "done" =>
          \/ ProviderFailed
          \/ /\ LastPos(new_messages, IsAssistantMessage) = Len(new_messages)
             /\ ToolCallsOf(LastAssistant) = <<>>
    /\ (pc = "request" /\ sent # <<>>) =>
          /\ ToolCallsOf(LastAssistant) # <<>>
          /\ ~ProviderFailed
          /\ Len(sent) < MaxRequests => ENABLED RequestStream
    /\ pc = "request" => (ENABLED RequestStream <=> Len(sent) < MaxRequests)

C23_Ends == <>(pc = "done" \/ RequestBoundReached)

C23_BreakEnds == (pc = "break") ~> (pc = "done")

C23_Termination == []C23_State /\ C23_Ends /\ C23_BreakEnds

\* a run has ended after a turn with a tool call and a turn without
C23_Witness ==
    /\ pc = "done"
    /\ ~ProviderFailed
    /\ Len(sent) = 2
    /\ Len(new_messages) >= 3
    /\ ToolCallsOf(new_messages[1]) # <<>>
    /\ ToolCallsOf(LastAssistant) = <<>>

\* ------------------------------------------------------------------------
\* C24: the loop moves between its states only along REQUESTING ->
\* STREAMING, STREAMING -> EXECUTING_TOOLS (the turn has tool calls),
\* STREAMING -> TERMINATED (it has none), EXECUTING_TOOLS -> REQUESTING
\* (every call of the turn has its result and its message), and to
\* TERMINATED on a provider failure; once the loop is left nothing is
\* emitted or appended.
\* ------------------------------------------------------------------------
\* the state of section 4.3 a position of the generator belongs to; the
\* while loop is left at "break" and at the return of the provider handler
Phase(p) ==
    CASE p \in {"start", "request"} -> "REQUESTING"
      [] p \in {"stream", "announce"} -> "STREAMING"
      [] p \in ExecPcs -> "EXECUTING_TOOLS"
      [] p \in {"break", "done"} -> "TERMINATED"
      [] OTHER -> "CLOSED"

C24_Transitions ==
    LET from == Phase(pc)
        to == Phase(pc')
        failed == events' # <<>> /\ IsProviderErrorEvent(Last(events'))
    IN \/ from = to
       \/ from = "REQUESTING" /\ to = "STREAMING"
       \/ /\ from = "STREAMING" /\ to = "EXECUTING_TOOLS"
          /\ ToolCallsOf(Last(new_messages')) # <<>>
       \/ /\ from = "STREAMING" /\ to = "TERMINATED"
          /\ \/ failed
             \/ /\ Last(new_messages').role = "assistant"
                /\ ToolCallsOf(Last(new_messages')) = <<>>
       \/ /\ from = "EXECUTING_TOOLS" /\ to = "REQUESTING"
          /\ \A j \in 1..Len(calls') : /\ Len(calls'[j].results) = 1
                                       /\ Len(calls'[j].appended) = 1
          /\ Len(calls') = Len(tool_calls_data)
       \/ to = "TERMINATED" /\ failed

C24_Absorbing ==
    Phase(pc) = "TERMINATED" =>
        /\ Phase(pc') = "TERMINATED"
        /\ events' = events
        /\ chat_messages' = chat_messages
        /\ new_messages' = new_messages

C24_StateMachine == [][C24_Transitions /\ C24_Absorbing]_vars

\* the transitions alone
C24_TransitionsOnly == [][C24_Transitions]_vars

\* ------------------------------------------------------------------------
\* C25: while a stream is consumed, the step that reads a chunk with text
\* emits the one text event of that chunk and a step that reads a chunk
\* without text emits nothing, so the events since the request are the text
\* events of the stream's fragments in arrival order; an announcement is
\* emitted only by the step that ends the stream, whatever deltas arrived.
\* ------------------------------------------------------------------------
IsText(t) == t # <<>>

TextEventsOf(ts) ==
    LET frags == SelectSeq(ts, IsText)
    IN [k \in 1..Len(frags) |-> Event("chunk", [v |-> frags[k]])]

C25_State ==
    pc = "stream" =>
        LET own == TextEventsOf(texts)
            before == Len(events) - Len(own)
        IN /\ before >= 0
           /\ SubSeq(events, before + 1, Len(events)) = own
           /\ before > 0 => IsToolResultEvent(events[before])
           \* every announcement so far belongs to a call that was executed
           /\ Len(SelectSeq(events, IsToolCallEvent)) =
                 Len(SelectSeq(new_messages, IsToolMessage))

C25_Step ==
    /\ (pc = "stream" /\ pc' = "stream") =>
          /\ Len(texts') = Len(texts) + 1
          /\ events' = IF IsText(Last(texts'))
                       THEN Append(events, Event("chunk", [v |-> Last(texts')]))
                       ELSE events
    /\ (events' # events /\ IsToolCallEvent(Last(events'))) =>
          /\ pc' = "announce"
          /\ nchunks' = nchunks
          /\ arrived' = arrived

C25_TextNowAnnouncementsLater == []C25_State /\ [][C25_Step]_vars

\* in the second stream a text fragment was emitted after a tool-call delta
\* had arrived, and nothing has been announced for that stream
C25_Witness ==
    /\ pc = "stream"
    /\ Len(sent) = 2
    /\ texts = << <<>>, <<"a">> >>
    /\ arrived # <<>>
    /\ Last(events) = Event("chunk", [v |-> <<"a">>])
    /\ IsToolResultEvent(events[Len(events) - 1])

\* ------------------------------------------------------------------------
\* C26: at stream end one assistant message with the accumulated text and
\* all the records is appended, then one announcement per record is
\* emitted, in index order, each with the whole record: whenever an
\* announcement of the turn has been emitted, the assistant message of the
\* turn is already the last message of the log.
\* ------------------------------------------------------------------------
\* the announcements of the turn whose announcing is under way or just over
AnnouncedRecords ==
    LET n == IF pc = "announce" THEN tc_i ELSE Len(tool_calls_data)
        tail == SubSeq(events, Len(events) - n + 1, Len(events))
    IN [k \in 1..n |-> tail[k]]

\* the part of C26 about the announcements and the message, without their
\* order
C26_OnePerRecord ==
    /\ pc = "announce" =>
          /\ tc_i \in 1..Len(tool_calls_data)
          /\ AnnouncedRecords =
                [k \in 1..tc_i |-> Event("tool_call", [tc |-> tool_calls_data[k]])]
    /\ pc = "parse" /\ tc_i = 1 =>
          /\ AnnouncedRecords =
                [k \in 1..Len(tool_calls_data) |->
                    Event("tool_call", [tc |-> tool_calls_data[k]])]
          /\ Last(chat_messages) = [role |-> "assistant",
                                    content |-> Flatten(texts),
                                    tool_calls |-> tool_calls_data]
          /\ Last(new_messages) = Last(chat_messages)
          /\ Len(SelectSeq(chat_messages, IsAssistantMessage)) = Len(sent)

C26_AppendedBeforeAnnounced ==
    /\ C26_OnePerRecord
    /\ pc = "announce" =>
          /\ Last(chat_messages).role = "assistant"
          /\ ToolCallsOf(Last(chat_messages)) = tool_calls_data
          /\ Len(SelectSeq(chat_messages, IsAssistantMessage)) = Len(sent)

\* ------------------------------------------------------------------------
\* C27: a call is run, then its tool_result is emitted, then its tool
\* message is appended, then the next call starts: the step that ends at
\* the yield of a tool_result appends nothing, and once the tool message of
\* a call is in the log its tool_result has been emitted.
\* ------------------------------------------------------------------------
\* the part of C27 that needs no order inside a step
C27_ResultNoLaterThanMessage ==
    calls # <<>> =>
        \A j \in 1..Len(calls) :
            /\ Len(calls[j].appended) <= Len(calls[j].results)
            /\ calls[j].results # <<>> =>
                  \/ Unknown(tool_calls_data[j])
                  \/ calls[j].returned = 1
            /\ (j > 1 /\ Touched(j)) => Len(calls[j - 1].appended) = 1

C27_ResultYieldAppendsNothing ==
    (events' # events /\ IsToolResultEvent(Last(events'))) =>
        /\ chat_messages' = chat_messages
        /\ new_messages' = new_messages

C27_ResultBeforeMessage ==
    []C27_ResultNoLaterThanMessage /\ [][C27_ResultYieldAppendsNothing]_vars

\* ------------------------------------------------------------------------
\* C28: the tool message of a call has the fields role, tool_call_id and
\* content only, and its content is the content of the call's tool_result
\* event: the serialized return value when the tool returned.  The event
\* has error = true exactly when the call failed (unknown tool, or the tool
\* raised) and no error field otherwise.
\* ------------------------------------------------------------------------
C28_MessageMirrorsResult ==
    calls # <<>> =>
        \A j \in 1..ResultCount :
            LET rec == tool_calls_data[j]
                failed == Unknown(rec) \/ RaisesInTool(rec)
                tr == ResultOf(j)
            IN /\ DOMAIN tr = IF failed
                              THEN {"tool_call_id", "content", "error"}
                              ELSE {"tool_call_id", "content"}
               /\ failed => tr.error = TRUE
               /\ tr.tool_call_id = rec.id
               /\ ~failed =>
                     tr.content = <<"json", [dummy_tool |-> TRUE,
                                             message |-> "No message provided",
                                             success |-> TRUE]>>
               /\ calls[j].appended # <<>> =>
                     /\ DOMAIN ToolMessageOf(j) = {"role", "tool_call_id", "content"}
                     /\ ToolMessageOf(j).role = "tool"
                     /\ ToolMessageOf(j).tool_call_id = rec.id
                     /\ ToolMessageOf(j).content = tr.content

\* a turn of a failed and a successful call is over
C28_Witness ==
    /\ pc = "request"
    /\ ResultCount = 2
    /\ "error" \in DOMAIN ResultOf(1)
    /\ "error" \notin DOMAIN ResultOf(2)
    /\ ResultOf(2).content[1] = "json"
    /\ ToolMessageOf(1).content = ResultOf(1).content
    /\ ToolMessageOf(2).content = ResultOf(2).content
    /\ "error" \notin DOMAIN ToolMessageOf(1)

\* ------------------------------------------------------------------------
\* C29: insert_research_details on a researchID that has a row does not
\* fail: every call of it returns True and leaves the row of that researchID
\* with the details and logs of the call; the table never has two rows of
\* one researchID, and a call of update_research_details that returned True
\* left its details and logs in the row.
\* ------------------------------------------------------------------------
RowOf(research_id) == CHOOSE r \in research_details : r.researchID = research_id

C29_InsertIsUpsert ==
    /\ \A r1, r2 \in research_details :
          r1.researchID = r2.researchID => r1 = r2
    /\ db_last.op = "insert" =>
          /\ ~db_last.result.raised
          /\ db_last.result.value = TRUE
          /\ HasRow(research_details, db_last.research_id)
          /\ RowOf(db_last.research_id).details = db_last.details
          /\ RowOf(db_last.research_id).logs = db_last.logs
    /\ (db_last.op = "update" /\ ~db_last.result.raised
            /\ db_last.result.value = TRUE) =>
          /\ HasRow(research_details, db_last.research_id)
          /\ db_last.details # None =>
                RowOf(db_last.research_id).details = db_last.details
          /\ db_last.logs # None =>
                RowOf(db_last.research_id).logs = db_last.logs

\* ------------------------------------------------------------------------
\* C30: a record that no delta filled (id "", name "", arguments "") is a
\* record like any other: a turn that has one does not break, the record is
\* announced and is in the tool_calls of the assistant message, and its
\* execution yields the argument-decode error event, the unknown-tool error
\* event and a tool_result with error = true, without invoking a tool, and
\* appends a tool message whose tool_call_id is "".
\* ------------------------------------------------------------------------
EmptyRecord ==
    [id |-> "", type |-> "function", function |-> [name |-> "", arguments |-> <<>>]]

UnfilledAt == {j \in 1..Len(tool_calls_data) : tool_calls_data[j] = EmptyRecord}

EmptyRecordContent ==
    <<"Error executing tool '", "", "': ", <<"Unknown tool: ", "">>>>

EmptyRecordEvents ==
    <<Event("error", <<"[Error parsing tool arguments]: Invalid JSON: ", <<>>>>),
      Event("error", <<"[Error calling tool ", "", "]: ", "ValueError", ": ",
                       <<"Unknown tool: ", "">>>>),
      Event("tool_result", [tr |-> [tool_call_id |-> "",
                                    content |-> EmptyRecordContent,
                                    error |-> TRUE]])>>

C30_UnfilledRecordIsExecuted ==
    /\ pc = "break" => UnfilledAt = {}
    /\ (pc = "announce" \/ (pc = "parse" /\ tc_i = 1)) =>
          \A j \in UnfilledAt :
              j <= Len(AnnouncedRecords) =>
                  AnnouncedRecords[j] = Event("tool_call", [tc |-> EmptyRecord])
    /\ (pc = "parse" /\ tc_i = 1) =>
          \A j \in UnfilledAt : ToolCallsOf(Last(chat_messages))[j] = EmptyRecord
    /\ calls # <<>> =>
          \A j \in UnfilledAt \cap 1..ResultsDue :
              /\ CallEvents(j) = EmptyRecordEvents
              /\ calls[j].started = 0
              /\ ToolMessageOf(j) = [role |-> "tool", tool_call_id |-> "",
                                     content |-> EmptyRecordContent]

\* the turn of an unfilled record at index 0 and a call at index 1 is over:
\* both have their tool_result and their tool message
C30_Witness ==
    /\ pc = "request"
    /\ calls # <<>>
    /\ UnfilledAt = {1}
    /\ Len(tool_calls_data) = 2
    /\ ResultCount = 2
    /\ CallEvents(1) = EmptyRecordEvents
    /\ ToolMessageOf(1).tool_call_id = ""

\* ------------------------------------------------------------------------
\* C31: an error event does not mean the end of the run.  A tool_result with
\* error = true comes right after the error event of its call; an error
\* event that is not the one of a provider failure (a failed call, an
\* undecodable payload) leaves the run going and is followed by another
\* event, at the latest the tool_result of its call; the error event of a
\* provider failure is the last event and ends the run.
\* ------------------------------------------------------------------------
IsCallErrorEvent(e) ==
    e.event_type = "error" /\ e.event_data[1] = "[Error calling tool "

IsErrorResultEvent(e) ==
    e.event_type = "tool_result" /\ HasErrorFlag(e.event_data.tr)

C31_State ==
    \A k \in 1..Len(events) :
        /\ IsErrorEvent(events[k]) =>
              \/ IsProviderErrorEvent(events[k])
              \/ IsCallErrorEvent(events[k])
              \/ IsParseErrorEvent(events[k])
        /\ IsProviderErrorEvent(events[k]) => (k = Len(events) /\ pc = "done")
        /\ IsCallErrorEvent(events[k]) =>
              IF k = Len(events) THEN pc = "except"
              ELSE IsErrorResultEvent(events[k + 1])
        /\ IsParseErrorEvent(events[k]) =>
              IF k = Len(events) THEN pc \in {"call", "await"}
              ELSE \/ IsCallErrorEvent(events[k + 1])
                   \/ (IsToolResultEvent(events[k + 1])
                         /\ ~IsErrorResultEvent(events[k + 1]))
        /\ IsErrorResultEvent(events[k]) =>
              (k > 1 /\ IsCallErrorEvent(events[k - 1]))

ToolErrorIsLast ==
    /\ events # <<>>
    /\ IsErrorEvent(Last(events))
    /\ ~IsProviderErrorEvent(Last(events))

ToolResultIsLast == events # <<>> /\ IsToolResultEvent(Last(events))

C31_RunGoesOn == ToolErrorIsLast ~> ToolResultIsLast

C31_ErrorIsNotTheEnd == []C31_State /\ C31_RunGoesOn

\* the second request was made after a turn in which a call failed and a
\* payload did not decode
C31_Witness ==
    /\ pc = "stream"
    /\ Len(sent) = 2
    /\ \E k \in 1..Len(events) : IsCallErrorEvent(events[k])
    /\ \E k \in 1..Len(events) : IsParseErrorEvent(events[k])

\* ------------------------------------------------------------------------
\* C32: when the stream fails after chunks were consumed, the chunk events
\* of that stream stay in the events and in what was delivered, the failure
\* adds the error event and nothing else: no message for the text consumed
\* so far, no tool_call event for the records accumulated so far.  After a
\* provider failure the run is over without any full_response, so the
\* messages of the earlier turns are never delivered as one.
\* ------------------------------------------------------------------------
IsFullResponsePayload(d) ==
    /\ DOMAIN d = {"full_response", "type"}
    /\ d.type = "full_response"

NonEmptyTexts == SelectSeq(texts, LAMBDA t : t # <<>>)

C32_State ==
    (pc = "done" /\ ProviderFailed) =>
        /\ FullResponseCount = 0
        /\ \A k \in 1..Len(delivered) : ~IsFullResponsePayload(delivered[k])
        /\ new_messages # <<>> => Last(new_messages).role = "tool"
        /\ Len(SelectSeq(events, IsToolCallEvent)) =
              Len(SelectSeq(new_messages, IsToolMessage))

C32_Step ==
    /\ pc # "done"
    /\ (pc = "stream" /\ pc' = "done") =>
          /\ Len(events') = Len(events) + 1
          /\ SubSeq(events', 1, Len(events)) = events
          /\ IsProviderErrorEvent(Last(events'))
          /\ Len(delivered') = Len(delivered) + 1
          /\ SubSeq(delivered', 1, Len(delivered)) = delivered
          /\ Last(delivered') = [content |-> Last(events').event_data,
                                 type |-> "error"]
          /\ LET n == Len(NonEmptyTexts)
             IN /\ n <= Len(events)
                /\ SubSeq(events, Len(events) - n + 1, Len(events)) =
                      [k \in 1..n |-> Event("chunk", [v |-> NonEmptyTexts[k]])]
                /\ SubSeq(delivered, Len(delivered) - n + 1, Len(delivered)) =
                      [k \in 1..n |-> [v |-> NonEmptyTexts[k]]]
          /\ new_messages' = new_messages
          /\ chat_messages' = chat_messages

C32_PartialTurnIsDropped == []C32_State /\ [][C32_Step]_vars

\* the stream of the second request failed after a text chunk and a delta
\* of a tool call; the first turn had a tool call and no text
C32_Witness ==
    /\ pc = "done"
    /\ ProviderFailed
    /\ Len(sent) = 2
    /\ full_response_text = <<"a">>
    /\ tool_calls_data # <<>>
    /\ new_messages # <<>>
    /\ LastAssistant.content = <<>>
    /\ events[Len(events) - 1].event_type = "chunk"

\* ------------------------------------------------------------------------
\* C33: the payload of every full_response event, and of its delivered form,
\* is well formed: it is the part of the log after the caller's history and
\* the system prompt, so it has assistant and tool messages only; its last
\* message is an assistant message without tool_calls; it starts with an
\* assistant message, and every assistant message before the last has
\* n >= 1 tool calls and is followed by exactly n tool messages whose
\* tool_call_id are the ids of those calls in order.
\* ------------------------------------------------------------------------
WellFormedPayload(p) ==
    /\ p # <<>>
    /\ \A i \in 1..Len(p) : p[i].role \in {"assistant", "tool"}
    /\ p[1].role = "assistant"
    /\ Last(p).role = "assistant"
    /\ "tool_calls" \notin DOMAIN Last(p)
    /\ \A i \in 1..(Len(p) - 1) :
          p[i].role = "assistant" =>
              /\ "tool_calls" \in DOMAIN p[i]
              /\ LET n == Len(p[i].tool_calls)
                 IN /\ n >= 1
                    /\ i + n + 1 <= Len(p)
                    /\ \A j \in 1..n :
                          /\ p[i + j].role = "tool"
                          /\ p[i + j].tool_call_id = p[i].tool_calls[j].id
                    /\ p[i + n + 1].role = "assistant"

C33_FinalResponseIsWellFormed ==
    /\ \A k \in 1..Len(events) :
          IsFullResponseEvent(events[k]) =>
              /\ WellFormedPayload(events[k].event_data)
              /\ events[k].event_data = new_messages
              /\ chat_messages = StartedLog(chat_history) \o events[k].event_data
    /\ \A k \in 1..Len(delivered) :
          IsFullResponsePayload(delivered[k]) =>
              WellFormedPayload(delivered[k].full_response)

\* a run ended after a turn of two calls and a turn of text: the payload
\* has the assistant message of the calls, two tool messages and the answer,
\* and the caller's history had a system message of its own
C33_Witness ==
    /\ pc = "done"
    /\ IsFullResponseEvent(Last(events))
    /\ Len(Last(events).event_data) = 4
    /\ Last(events).event_data[4].content = <<"a">>
    /\ Len(chat_history) = 2

\* ------------------------------------------------------------------------
\* C34: the events of one iteration come in three phases that do not mix:
\* the chunk events of the stream, then one tool_call event per record,
\* then the error and tool_result events of the calls.  While the calls of a
\* turn are executed, and until the next request, the events since the last
\* request are exactly the chunk events, then all the announcements, then
\* error and tool_result events only; no call is started while the
\* announcing is under way; a chunk event is yielded only while the stream
\* is consumed, a tool_call event only at stream end, an error or
\* tool_result event of a call only while the calls are executed.
\* ------------------------------------------------------------------------
AnnouncementsOf(recs) ==
    [k \in 1..Len(recs) |-> Event("tool_call", [tc |-> recs[k]])]

InExecution == pc \in ExecPcs \/ (pc = "request" /\ calls # <<>>)

C34_State ==
    /\ pc = "announce" =>
          /\ \A i \in 1..Len(calls) : ~Touched(i)
          /\ LET m == Len(TextEventsOf(texts))
                 b == Len(events) - tc_i - m
             IN /\ b >= 0
                /\ SubSeq(events, b + 1, b + m) = TextEventsOf(texts)
                /\ SubSeq(events, b + m + 1, Len(events)) =
                      SubSeq(AnnouncementsOf(tool_calls_data), 1, tc_i)
    /\ InExecution =>
          LET a == LastPos(events, IsToolCallEvent)
              n == Len(tool_calls_data)
              m == Len(TextEventsOf(texts))
              b == a - n - m
          IN /\ n >= 1
             /\ b >= 0
             /\ SubSeq(events, b + 1, b + m) = TextEventsOf(texts)
             /\ SubSeq(events, b + m + 1, a) = AnnouncementsOf(tool_calls_data)
             /\ b > 0 => IsToolResultEvent(events[b])
             /\ \A k \in (a + 1)..Len(events) :
                   \/ IsToolResultEvent(events[k])
                   \/ IsCallErrorEvent(events[k])
                   \/ IsParseErrorEvent(events[k])

C34_Step ==
    events' # events =>
        /\ Len(events') = Len(events) + 1
        /\ SubSeq(events', 1, Len(events)) = events
        /\ Last(events').event_type = "chunk" => (pc = "stream" /\ pc' = "stream")
        /\ IsToolCallEvent(Last(events')) =>
              /\ pc \in {"stream", "announce"}
              /\ pc' = "announce"
        /\ (IsToolResultEvent(Last(events')) \/ IsCallErrorEvent(Last(events'))
               \/ IsParseErrorEvent(Last(events'))) => pc \in ExecPcs

C34_PhasesDoNotInterleave == []C34_State /\ [][C34_Step]_vars

\* the second call of a turn with text is in flight: the text, both
\* announcements and the events of the first call are behind it
C34_Witness ==
    /\ pc = "await"
    /\ tc_i = 2
    /\ Len(TextEventsOf(texts)) = 1
    /\ Len(events) >= 4
    /\ events[1].event_type = "chunk"
    /\ IsToolCallEvent(events[2])
    /\ IsToolCallEvent(events[3])
    /\ IsToolResultEvent(Last(events))

\* ------------------------------------------------------------------------
\* C35: chat_stream never changes the caller's chat_history: no step of a
\* run, whether it finishes, fails or is abandoned, changes the list, and
\* everything the run adds (system prompt, assistant and tool messages) is in
\* chat_messages, which is the history with the prompt in front when it was
\* needed, followed by the messages of the run.
\* ------------------------------------------------------------------------
C35_State ==
    /\ chat_history \in Histories
    /\ (pc = "start" \/ closed_at = "start") => chat_messages = <<>>
    /\ (pc # "start" /\ closed_at # "start") =>
          /\ chat_messages = StartedLog(chat_history) \o new_messages
          /\ \A k \in 1..Len(chat_history) :
                chat_history[k].role \in {"user", "system"}

C35_Step ==
    /\ chat_history' = chat_history
    /\ Len(chat_history') = Len(chat_history)

C35_HistoryIsNotChanged == []C35_State /\ [][C35_Step]_vars

\* a run on a history without system message was abandoned after a turn
\* with a tool call: the log has the prompt, the assistant message and the
\* tool message, the history has its one message
C35_Witness ==
    /\ pc = "closed"
    /\ chat_history = <<user_message>>
    /\ Len(new_messages) >= 2
    /\ Len(chat_messages) = Len(new_messages) + 2
    /\ chat_messages[1] = system_prompt

\* ------------------------------------------------------------------------
\* C36: a call of wikipedia_search never raises to the executor: whatever
\* the arguments and whatever the request meets, the call gets a tool_result
\* without error flag and no error event of the call; when the request
\* failed the result has success = false and an error text.
\* ------------------------------------------------------------------------
WikiResultsOf == SelectSeq(wiki.events, IsToolResultEvent)

C36_SearchFailureIsAResult ==
    \A k \in 1..Len(wiki.events) :
        /\ ~IsCallErrorEvent(wiki.events[k])
        /\ IsToolResultEvent(wiki.events[k]) =>
              ~HasErrorFlag(wiki.events[k].event_data.tr)

C36_WikipediaNeverRaises ==
    /\ wiki.pc # "except"
    /\ C36_SearchFailureIsAResult
    /\ (wiki.pc = "idle" /\ wiki.ncalls > 0
           /\ wiki.net \notin {"results", "no_search"}) =>
          LET v == Last(WikiResultsOf).event_data.tr.content[2]
          IN /\ v.success = FALSE
             /\ v.error # <<>>

\* ------------------------------------------------------------------------
\* C37: the history of a ChatSession is, for every send_message call in
\* order, its user message, followed by one assistant message holding the
\* concatenation of the text that arrived exactly when the response was
\* consumed to its end and that text is not blank.  Every request carries
\* the history with the user message of its call as last message.  Nothing
\* else enters the history: a call whose request failed, whose response
\* broke or which was abandoned leaves its user message without reply.
\* ------------------------------------------------------------------------
IsBlank(t) == \A k \in 1..Len(t) : t[k] \in Whitespace

ExpectedOf(e) ==
    <<[role |-> "user", content |-> e.message]>>
    \o (IF e.outcome = "consumed" /\ ~IsBlank(Flatten(e.received))
        THEN <<[role |-> "assistant", content |-> Flatten(e.received)]>>
        ELSE <<>>)

RECURSIVE ExpectedHistory(_)
ExpectedHistory(log) ==
    IF log = <<>> THEN <<>>
    ELSE ExpectedHistory(SubSeq(log, 1, Len(log) - 1)) \o ExpectedOf(Last(log))

C37_SessionHistory ==
    /\ session.messages = ExpectedHistory(session.log)
    /\ Len(session.requests) =
          IF session.pc = "request" THEN Len(session.log) - 1
          ELSE Len(session.log)
    /\ \A k \in 1..Len(session.requests) :
          session.requests[k] =
              ExpectedHistory(SubSeq(session.log, 1, k - 1))
              \o <<[role |-> "user", content |-> session.log[k].message]>>
    /\ session.pc = "stream" =>
          session.assistant_content = Flatten(Last(session.log).received)
    /\ session.pc = "idle" =>
          \A k \in 1..Len(session.log) :
              session.log[k].outcome \in {"consumed", "failed", "abandoned"}

\* the first call received text and a tool result and was consumed, the
\* second was abandoned after an error line
C37_Witness ==
    /\ session.pc = "idle"
    /\ Len(session.log) = 2
    /\ session.log[1].outcome = "consumed"
    /\ session.log[2].outcome = "abandoned"
    /\ session.out = <<"text", "tool_completed", "error">>
    /\ Len(session.messages) = 3
    /\ session.messages[2] = [role |-> "assistant", content |-> <<"a">>]

\* the response held only whitespace and was consumed
C37_WitnessBlank ==
    /\ session.pc = "idle"
    /\ Len(session.log) = 1
    /\ session.log[1].outcome = "consumed"
    /\ session.log[1].received = <<<<" ">>, <<" ">>>>
    /\ Len(session.messages) = 1

====
